---- MODULE Spec2Model ----
(***************************************************************************)
(* Model of the IndianKanoon HTTP client wrapper of LegalMCP               *)
(* (src/src/index.ts, class IndianKanoonClient) and of the two tool        *)
(* handlers that join parallel client calls (search_legal_precedents and   *)
(* extract_legal_principles).                                              *)
(*                                                                         *)
(* Time is in milliseconds and kept relative to Date.now(): a pending      *)
(* setTimeout is the time left until it fires, a cache entry carries its   *)
(* age Date.now() - timestamp (capped just above the timeout), and the     *)
(* network log keeps the time since the last fetch (capped at the request  *)
(* delay).                                                                 *)
(* Strings are sequences of tokens; String.includes(x) is membership of    *)
(* the token x.  The tokens that formatError looks for ("401", "429",      *)
(* "Network", "fetch", "timeout") are kept as tokens of their own wherever *)
(* the source text contains them.                                          *)
(***************************************************************************)
EXTENDS Integers, Sequences, FiniteSets, TLC

VARIABLES enableCaching, cacheTimeout, elapses, cache, calls,
          requestQueue, slotTimer, sinceFetch, lastGap, tool,
          args, ret

vars == <<enableCaching, cacheTimeout, elapses, cache, calls,
          requestQueue, slotTimer, sinceFetch, lastGap, tool,
          args, ret>>

(***************************************************************************)
(* Bounds of the model                                                     *)
(***************************************************************************)
\* number of logical client calls (direct ones and tool sub-requests)
MaxCalls == 2
\* number of times the environment lets time pass between calls
MaxElapses == 1

(***************************************************************************)
(* Program constants                                                       *)
(***************************************************************************)
requestDelay == 100
retries == 3
\* configSchema.cacheTimeout: minutes, min 10
MinCacheTimeoutMinutes == 10

NoTimer == -1

\* args and ret hold the arguments and the return value of a function of the
\* server that is run on its own; the client model leaves them alone
NoArgs == [fn |-> "none"]
NoRet == [kind |-> "none"]

(***************************************************************************)
(* Strings                                                                 *)
(***************************************************************************)
includes(str, tok) == \E i \in 1..Len(str) : str[i] = tok

(***************************************************************************)
(* JSON values returned by response.json(), and undefined                  *)
(***************************************************************************)
JNull == [t |-> "null", docs |-> << >>]
JObject(items) == [t |-> "object", docs |-> items]
Undefined == [t |-> "undefined", docs |-> << >>]

\* JavaScript truthiness of a value, as used by `if (cached) return cached`
Truthy(v) == v.t = "object"

\* the bodies the upstream may answer with
Payloads == {JNull, JObject(<<1>>), JObject(<<2>>)}

(***************************************************************************)
(* Requests of the four client operations                                  *)
(***************************************************************************)
SearchReq(q) == [op |-> "search", docId |-> "", formInput |-> q]
DocReq(d) == [op |-> "getDocument", docId |-> d, formInput |-> ""]
FragReq(d, q) == [op |-> "getDocumentFragments", docId |-> d, formInput |-> q]
MetaReq(d) == [op |-> "getDocumentMetadata", docId |-> d, formInput |-> ""]

FormInputs == {"q1", "q2"}
DirectRequests ==
  {SearchReq("q1"), SearchReq("q2"), DocReq("d1"), FragReq("d1", "q1"), MetaReq("d1")}

endpoint(req) ==
  CASE req.op = "search" -> <<"/search/">>
    [] req.op = "getDocument" -> <<"/doc/", req.docId, "/">>
    [] req.op = "getDocumentFragments" -> <<"/docfragment/", req.docId, "/">>
    [] req.op = "getDocumentMetadata" -> <<"/docmeta/", req.docId, "/">>

\* the params object of each operation, as its sequence of (name, value) pairs
params(req) ==
  CASE req.op = "search" -> << <<"formInput", req.formInput>>, <<"pagenum", "0">> >>
    [] req.op = "getDocument" -> << >>
    [] req.op = "getDocumentFragments" -> << <<"formInput", req.formInput>> >>
    [] req.op = "getDocumentMetadata" -> << >>

\* JSON.stringify of a params object whose values are strings: the members
\* `"name":"value"` in insertion order, separated by commas, inside braces
RECURSIVE members(_)
members(ps) ==
  IF ps = << >> THEN << >>
  ELSE <<"\"", ps[1][1], "\"", ":", "\"", ps[1][2], "\"">>
         \o (IF Len(ps) > 1 THEN <<",">> ELSE << >>) \o members(Tail(ps))

stringify(ps) == <<"{">> \o members(ps) \o <<"}">>

\* a key made of the endpoint alone
getCacheKeyEndpointOnly(ep, ps) == ep \o <<":">>

\* `${endpoint}:${JSON.stringify(params)}`, one string
getCacheKey(ep, ps) == ep \o <<":">> \o stringify(ps)

cacheKey(req) == getCacheKey(endpoint(req), params(req))

\* the context string each client operation hands to formatError
context(req) ==
  CASE req.op = "search" -> <<"search">>
    [] req.op = "getDocument" -> <<"document ", "fetch">>
    [] req.op = "getDocumentFragments" -> <<"fragment ", "fetch">>
    [] req.op = "getDocumentMetadata" -> <<"metadata ", "fetch">>

(***************************************************************************)
(* formatError                                                             *)
(***************************************************************************)
AuthMessage == <<"Authentication failed: Please check your IndianKanoon API key in settings">>
RateLimitMessage == <<"Rate limit exceeded: Please wait a moment and try again">>
NetworkMessage == <<"Network", " error: Please check your internet connection">>
TimeoutMessage == <<"Request ", "timeout", ": The server took too long to respond. Try with fewer results">>

formatError(errorMsg, ctx) ==
  IF includes(errorMsg, "401") THEN AuthMessage
  ELSE IF includes(errorMsg, "429") THEN RateLimitMessage
  ELSE IF includes(errorMsg, "Network") \/ includes(errorMsg, "fetch") THEN NetworkMessage
  ELSE IF includes(errorMsg, "timeout") THEN TimeoutMessage
  ELSE <<"Error in ">> \o ctx \o <<": ">> \o errorMsg
       \o <<"\nSuggestions: \n1. Verify your API key is valid\n2. Check if the document ID exists\n3. Try with different search terms">>

(***************************************************************************)
(* Errors thrown inside throttledRequest and by the handlers               *)
(***************************************************************************)
\* status 0 stands for a fetch that rejects (network-level failure)
NetworkFailure == 0
Statuses == {200, 401, 429, 500}

statusText(status) ==
  CASE status = 401 -> "Unauthorized"
    [] status = 429 -> "Too Many Requests"
    [] status = 500 -> "Internal Server Error"
    [] OTHER -> "OK"

\* new Error(`API error: ${response.status} ${response.statusText}`)
ApiError(status) == <<"API error: ", ToString(status), " ", statusText(status)>>

\* the TypeError message of a rejected fetch
FetchFailed == <<"fetch", " failed">>

\* the TypeError of reading a property of undefined or null
PropertyOfNullish(v, prop) == <<"Cannot read properties of ", v.t, " (reading '", prop, "')">>

responseOk(status) == status >= 200 /\ status <= 299

(***************************************************************************)
(* The cache map                                                           *)
(***************************************************************************)
\* an expiry test that compares against the timeout taken in the wrong unit
IsExpiredWrongUnit(entry) == entry.age > cacheTimeout * 1000

\* `Date.now() - cached.timestamp > this.cacheTimeout`
IsExpired(entry) == entry.age > cacheTimeout

\* the value getFromCache returns (JNull is JavaScript null)
getFromCache(ch, key) ==
  IF ~enableCaching THEN JNull
  ELSE IF key \notin DOMAIN ch THEN JNull
  ELSE IF IsExpired(ch[key]) THEN JNull
  ELSE ch[key].data

\* the cache map after getFromCache: an expired entry is deleted on read
cacheAfterGet(ch, key) ==
  IF enableCaching /\ key \in DOMAIN ch /\ IsExpired(ch[key])
    THEN [k \in DOMAIN ch \ {key} |-> ch[k]]
    ELSE ch

\* which branch of getFromCache the lookup took
lookupBranch(ch, key) ==
  IF ~enableCaching THEN "disabled"
  ELSE IF key \notin DOMAIN ch THEN "absent"
  ELSE IF IsExpired(ch[key]) THEN "expired"
  ELSE "found"

\* `this.cache.set(key, { data, timestamp: Date.now() })`: the entry is new
setCache(ch, key, data) ==
  IF ~enableCaching THEN ch
  ELSE [k \in DOMAIN ch \cup {key} |->
          IF k = key THEN [data |-> data, age |-> 0] ELSE ch[k]]

(***************************************************************************)
(* Logical calls                                                           *)
(***************************************************************************)
Pending == [kind |-> "pending", data |-> Undefined, msg |-> << >>]
Ok(v) == [kind |-> "ok", data |-> v, msg |-> << >>]
Err(m) == [kind |-> "err", data |-> Undefined, msg |-> m]

\* a linear delay where the exponential one belongs
Backoff429Linear(attempt) == 1000 * (attempt + 1)

Backoff429(attempt) == (2 ^ attempt) * 1000

BackoffError(attempt) == 1000 * (attempt + 1)

\* the loop condition `attempt < retries`
LoopContinues(attempt) == attempt < retries

\* an off-by-one test of the last attempt
IsLastAttemptOffByOne(attempt) == attempt = retries

\* `if (attempt === retries - 1) throw error`
IsLastAttempt(attempt) == attempt = retries - 1

\* `if (response.status === 429)`: the response is retried as rate limited
IsRateLimited(status) == status = 429

\* the client state the operations below transform
ClientState ==
  [cache |-> cache, calls |-> calls, requestQueue |-> requestQueue,
   slotTimer |-> slotTimer, sinceFetch |-> sinceFetch, lastGap |-> lastGap]

\* `await fetch(endpoint, options)` is started by call c
IssueFetch(cs, c) ==
  [cs EXCEPT !.calls[c].pc = "fetching",
             !.calls[c].fetches = @ + 1,
             !.calls[c].timer = NoTimer,
             !.lastGap = cs.sinceFetch,
             !.sinceFetch = 0]

\* throttledRequest returned v: `this.setCache(cacheKey, data); return data;`
ReturnData(cs, c, v) ==
  [cs EXCEPT !.cache = setCache(cs.cache, cacheKey(cs.calls[c].req), v),
             !.calls[c].pc = "done",
             !.calls[c].timer = NoTimer,
             !.calls[c].result = Ok(v)]

\* throttledRequest threw: `throw new Error(formatError(error, <context>))`
ThrowError(cs, c, errorMsg) ==
  [cs EXCEPT !.calls[c].pc = "done",
             !.calls[c].timer = NoTimer,
             !.calls[c].result = Err(formatError(errorMsg, context(cs.calls[c].req)))]

\* the catch block of the retry loop
Catch(cs, c, errorMsg) ==
  IF IsLastAttempt(cs.calls[c].attempt)
    THEN ThrowError(cs, c, errorMsg)
    ELSE [cs EXCEPT !.calls[c].pc = "waitErr",
                    !.calls[c].timer = BackoffError(cs.calls[c].attempt)]

\* the body of the retry loop after `await fetch` settled with `status`
HandleResponse(cs0, c, status, body) ==
  LET cs == [cs0 EXCEPT !.calls[c].status = status,
                        !.calls[c].all429 = @ /\ status = 429] IN
  IF status = NetworkFailure THEN Catch(cs, c, FetchFailed)
  ELSE IF IsRateLimited(status)
    THEN [cs EXCEPT !.calls[c].pc = "wait429",
                    !.calls[c].timer = Backoff429(cs.calls[c].attempt)]
  ELSE IF ~responseOk(status) THEN Catch(cs, c, ApiError(status))
  ELSE ReturnData(cs, c, body)

\* a backoff timer fired: the loop increments attempt and tests its condition;
\* leaving the loop makes throttledRequest return undefined
NextIteration(cs0, c) ==
  LET cs == [cs0 EXCEPT !.calls[c].attempt = @ + 1] IN
  IF LoopContinues(cs.calls[c].attempt)
    THEN IssueFetch(cs, c)
    ELSE ReturnData(cs, c, Undefined)

\* a queue whose next slot is never started
ChainSlotDropped(queue) == NoTimer

\* the timer the request queue is left with once its head slot has resolved
ChainSlot(queue) == IF queue = << >> THEN NoTimer ELSE requestDelay

\* one client operation (search, getDocument, getDocumentFragments,
\* getDocumentMetadata) is invoked, up to its first await
Invoke(cs, req, owner) ==
  LET key == cacheKey(req)
      cached == getFromCache(cs.cache, key)
      cache1 == cacheAfterGet(cs.cache, key)
      c == Len(cs.calls) + 1
      base == [req |-> req, owner |-> owner,
               lookup |-> lookupBranch(cs.cache, key),
               pc |-> "queued", attempt |-> 0, timer |-> NoTimer,
               status |-> -1, fetches |-> 0, all429 |-> TRUE, result |-> Pending]
  IN IF Truthy(cached)
       THEN [cs EXCEPT !.cache = cache1,
                       !.calls = Append(@, [base EXCEPT !.pc = "done", !.result = Ok(cached)])]
       ELSE [cs EXCEPT !.cache = cache1,
                       !.calls = Append(@, base),
                       !.requestQueue = Append(@, c),
                       !.slotTimer = IF cs.requestQueue = << >> THEN requestDelay ELSE @]

\* the operations of `reqs` invoked one after the other in the same turn
RECURSIVE InvokeAll(_, _, _)
InvokeAll(cs, reqs, owner) ==
  IF reqs = << >> THEN cs
  ELSE InvokeAll(Invoke(cs, Head(reqs), owner), Tail(reqs), owner)

(***************************************************************************)
(* Tool handlers: search_legal_precedents and extract_legal_principles     *)
(***************************************************************************)
NoEnvelope == [kind |-> "none", message |-> << >>, docs |-> << >>]

\* an exception that leaves the handler
Thrown(msg) == [kind |-> "thrown", message |-> msg, docs |-> << >>]

\* a catch block that hands the error on instead of answering
ErrorEnvelopeRethrown(message) == Thrown(message)

\* the answer of the catch block of search_legal_precedents and of
\* extract_legal_principles
ErrorEnvelope(message) == [kind |-> "ERROR", message |-> message, docs |-> << >>]

Envelope(kind, docs) == [kind |-> kind, message |-> << >>, docs |-> docs]

NoTool == [name |-> "none", stage |-> "idle", meta |-> 0, subs |-> << >>,
           terms |-> << >>, envelope |-> NoEnvelope]

\* the lists of search variants preprocessQuery hands to the handler: always
\* the normalized query and its ANDD form, equal for a one-word query
VariantLists == {<<"q1", "q2">>, <<"q1", "q1">>}
\* the searchTerms arrays of extract_legal_principles
TermLists == {<<"q1">>, <<"q1", "q2">>}

\* a sub-request promise after `.catch(err => ({ docs: [], error: err.message }))`
Settled(call) == IF call.result.kind = "err" THEN JObject(<< >>) ELSE call.result.data

Nullish(v) == v.t \in {"undefined", "null"}

InSeq(x, seq) == \E i \in 1..Len(seq) : seq[i] = x

\* the docs of one result appended to allDocs, skipping the tids already seen
RECURSIVE addDocs(_, _)
addDocs(allDocs, docs) ==
  IF docs = << >> THEN allDocs
  ELSE addDocs(IF InSeq(Head(docs), allDocs) THEN allDocs ELSE Append(allDocs, Head(docs)),
               Tail(docs))

\* the merge loop of search_legal_precedents over results that are objects
RECURSIVE mergeDocs(_, _)
mergeDocs(results, allDocs) ==
  IF results = << >> THEN allDocs
  ELSE mergeDocs(Tail(results), addDocs(allDocs, Head(results).docs))

\* the fragment loop of extract_legal_principles: allFragments.push(...result.headline)
RECURSIVE collectFragments(_, _)
collectFragments(results, allFragments) ==
  IF results = << >> THEN allFragments
  ELSE collectFragments(Tail(results), allFragments \o Head(results).docs)

FirstNullish(results) ==
  results[CHOOSE i \in 1..Len(results) :
            Nullish(results[i]) /\ \A j \in 1..(i - 1) : ~Nullish(results[j])]

\* the handler of search_legal_precedents from `await Promise.all` on
searchJoin(results) ==
  IF \E i \in 1..Len(results) : Nullish(results[i])
    THEN ErrorEnvelope(formatError(PropertyOfNullish(FirstNullish(results), "docs"), <<"search">>))
  ELSE LET allDocs == mergeDocs(results, << >>) IN
       IF allDocs = << >> THEN Envelope("NO_RESULTS", << >>)
       ELSE Envelope("RESULTS", allDocs)

\* the handler of extract_legal_principles from `await Promise.all` on
extractJoin(metadata, results) ==
  IF \E i \in 1..Len(results) : Nullish(results[i])
    THEN ErrorEnvelope(formatError(PropertyOfNullish(FirstNullish(results), "headline"), <<"extraction">>))
  ELSE LET allFragments == collectFragments(results, << >>) IN
       IF Nullish(metadata)
         THEN ErrorEnvelope(formatError(
                PropertyOfNullish(metadata, IF allFragments = << >> THEN "title" ELSE "caseno"),
                <<"extraction">>))
       ELSE IF allFragments = << >> THEN Envelope("NO_FRAGMENTS", << >>)
       ELSE Envelope("PRINCIPLES", allFragments)

AllDone(cls, ids) == \A i \in 1..Len(ids) : cls[ids[i]].pc = "done"

\* ids of the calls n+1 .. n+k
NewIds(n, k) == [i \in 1..k |-> n + i]

\* extract_legal_principles resumes after `await client.getDocumentMetadata`:
\* a rejection goes to the catch block, otherwise the fragment calls are issued
AfterMetadata(st) ==
  LET tl == st.tool
      cs == st.cs IN
  IF tl.name = "extract_legal_principles" /\ tl.stage = "metadata"
     /\ cs.calls[tl.meta].pc = "done"
    THEN IF cs.calls[tl.meta].result.kind = "err"
           THEN [cs |-> cs,
                 tool |-> [tl EXCEPT !.stage = "done",
                             !.envelope = ErrorEnvelope(
                                formatError(cs.calls[tl.meta].result.msg, <<"extraction">>))]]
           ELSE [cs |-> InvokeAll(cs, [i \in 1..Len(tl.terms) |-> FragReq("d1", tl.terms[i])], 1),
                 tool |-> [tl EXCEPT !.stage = "join",
                             !.subs = NewIds(Len(cs.calls), Len(tl.terms))]]
    ELSE st

\* the handler resumes after `await Promise.all(...)` once every sub-request settled
AfterJoin(st) ==
  LET tl == st.tool
      cs == st.cs
      results == [i \in 1..Len(tl.subs) |-> Settled(cs.calls[tl.subs[i]])] IN
  IF tl.stage = "join" /\ AllDone(cs.calls, tl.subs)
    THEN [cs |-> cs,
          tool |-> [tl EXCEPT !.stage = "done",
                      !.envelope = IF tl.name = "search_legal_precedents"
                                     THEN searchJoin(results)
                                     ELSE extractJoin(cs.calls[tl.meta].result.data, results)]]
    ELSE st


(***************************************************************************)
(* Actions                                                                 *)
(***************************************************************************)
Commit(st) ==
  /\ cache' = st.cs.cache
  /\ calls' = st.cs.calls
  /\ requestQueue' = st.cs.requestQueue
  /\ slotTimer' = st.cs.slotTimer
  /\ sinceFetch' = st.cs.sinceFetch
  /\ lastGap' = st.cs.lastGap
  /\ tool' = st.tool
  /\ UNCHANGED <<args, ret>>

\* the step leaves the client in state cs; the continuations of the tool
\* handler run in the same turn
Finish(cs, tl) ==
  \E st0 \in {[cs |-> cs, tool |-> tl]} :
    \E st1 \in {AfterMetadata(st0)} :
      \E st2 \in {AfterJoin(st1)} : Commit(st2)

\* call slots the running tool handler still needs for its fragment calls
Reserved == IF tool.stage = "metadata" THEN Len(tool.terms) ELSE 0

Init ==
  /\ enableCaching \in BOOLEAN
  /\ cacheTimeout = MinCacheTimeoutMinutes * 60 * 1000
  /\ elapses = 0
  /\ cache = << >>
  /\ calls = << >>
  /\ requestQueue = << >>
  /\ slotTimer = NoTimer
  /\ sinceFetch = NoTimer
  /\ lastGap = NoTimer
  /\ tool = NoTool
  /\ args = NoArgs
  /\ ret = NoRet

\* a caller invokes one client operation
CallClient(req) ==
  /\ Len(calls) + Reserved < MaxCalls
  /\ Finish(Invoke(ClientState, req, 0), tool)
  /\ UNCHANGED <<enableCaching, cacheTimeout, elapses>>

\* search_legal_precedents is invoked; its variant searches start in one turn
StartSearchTool(variants) ==
  /\ tool.name = "none"
  /\ Len(calls) + Len(variants) <= MaxCalls
  /\ Finish(
       InvokeAll(ClientState, [i \in 1..Len(variants) |-> SearchReq(variants[i])], 1),
       [NoTool EXCEPT !.name = "search_legal_precedents", !.stage = "join",
                      !.subs = NewIds(Len(calls), Len(variants))])
  /\ UNCHANGED <<enableCaching, cacheTimeout, elapses>>

\* extract_legal_principles is invoked; it first awaits the metadata
StartExtractTool(terms) ==
  /\ tool.name = "none"
  /\ Len(calls) + 1 + Len(terms) <= MaxCalls
  /\ Finish(
       Invoke(ClientState, MetaReq("d1"), 1),
       [NoTool EXCEPT !.name = "extract_legal_principles", !.stage = "metadata",
                      !.meta = Len(calls) + 1, !.terms = terms])
  /\ UNCHANGED <<enableCaching, cacheTimeout, elapses>>

\* the timer of the head of the request queue fires: the head call leaves
\* `await this.requestQueue` and enters the retry loop, the next timer starts
SlotFires ==
  /\ requestQueue # << >>
  /\ slotTimer = 0
  /\ LET c == Head(requestQueue)
         cs == [ClientState EXCEPT !.requestQueue = Tail(requestQueue),
                                   !.slotTimer = ChainSlot(Tail(requestQueue))] IN
     Finish(IssueFetch(cs, c), tool)
  /\ UNCHANGED <<enableCaching, cacheTimeout, elapses>>

\* the pending fetch of call c settles: a response with a status and body,
\* or a rejection
FetchSettles(c, status, body) ==
  /\ c \in 1..Len(calls)
  /\ calls[c].pc = "fetching"
  /\ Finish(HandleResponse(ClientState, c, status, body), tool)
  /\ UNCHANGED <<enableCaching, cacheTimeout, elapses>>

\* the backoff timer of call c fires
BackoffFires(c) ==
  /\ c \in 1..Len(calls)
  /\ calls[c].pc \in {"wait429", "waitErr"}
  /\ calls[c].timer = 0
  /\ Finish(NextIteration(ClientState, c), tool)
  /\ UNCHANGED <<enableCaching, cacheTimeout, elapses>>

Waiting == {c \in 1..Len(calls) : calls[c].pc \in {"wait429", "waitErr"}}

PendingTimers ==
  (IF requestQueue # << >> THEN {slotTimer} ELSE {}) \cup {calls[c].timer : c \in Waiting}

Min(a, b) == IF a <= b THEN a ELSE b

\* the clocks after d milliseconds have passed
Pass(d) ==
  /\ cache' = [k \in DOMAIN cache |->
                 [cache[k] EXCEPT !.age = Min(@ + d, cacheTimeout + 1)]]
  /\ calls' = [c \in 1..Len(calls) |->
                 IF c \in Waiting THEN [calls[c] EXCEPT !.timer = @ - d] ELSE calls[c]]
  /\ slotTimer' = IF requestQueue # << >> THEN slotTimer - d ELSE slotTimer
  /\ sinceFetch' = IF sinceFetch = NoTimer THEN NoTimer ELSE Min(sinceFetch + d, requestDelay)
  /\ UNCHANGED <<enableCaching, cacheTimeout, requestQueue, lastGap, tool, args, ret>>

\* time passes until the next pending timer is due
AdvanceToTimer ==
  /\ PendingTimers # {}
  /\ \A d \in PendingTimers : d > 0
  /\ Pass(CHOOSE d \in PendingTimers : \A e \in PendingTimers : d <= e)
  /\ UNCHANGED elapses

\* time passes by d while no call is in progress
Elapse(d) ==
  /\ elapses < MaxElapses
  /\ \A c \in 1..Len(calls) : calls[c].pc = "done"
  /\ Pass(d)
  /\ elapses' = elapses + 1

Next ==
  \/ \E req \in DirectRequests : CallClient(req)
  \/ \E variants \in VariantLists : StartSearchTool(variants)
  \/ \E terms \in TermLists : StartExtractTool(terms)
  \/ SlotFires
  \/ \E c \in 1..MaxCalls : \E body \in Payloads : FetchSettles(c, 200, body)
  \/ \E c \in 1..MaxCalls : \E status \in {NetworkFailure, 401, 429, 500} : FetchSettles(c, status, JNull)
  \/ \E c \in 1..MaxCalls : BackoffFires(c)
  \/ AdvanceToTimer
  \/ \E d \in {cacheTimeout, cacheTimeout + 1} : Elapse(d)

Spec == Init /\ [][Next]_vars

(***************************************************************************)
(* The specification for termination: the same actions over one direct     *)
(* request and one body per kind of outcome, with the fairness of the      *)
(* event loop (a due timer fires, a pending fetch settles)                 *)
(***************************************************************************)
EventLoop ==
  \/ SlotFires
  \/ AdvanceToTimer
  \/ \E c \in 1..MaxCalls : BackoffFires(c)
  \/ \E c \in 1..MaxCalls : FetchSettles(c, 200, JObject(<<1>>))
  \/ \E c \in 1..MaxCalls : \E status \in {NetworkFailure, 429, 500} : FetchSettles(c, status, JNull)

LiveNext ==
  \/ CallClient(SearchReq("q1"))
  \/ \E variants \in VariantLists : StartSearchTool(variants)
  \/ \E terms \in TermLists : StartExtractTool(terms)
  \/ EventLoop

Fairness == WF_vars(EventLoop)

LiveSpec == Init /\ [][LiveNext]_vars /\ Fairness

(***************************************************************************)
(* The tool handlers as functions of the outcomes of their sub-requests.   *)
(* A sub-request outcome is what a client call can settle with: a returned *)
(* payload (a JSON value, or undefined after the retry loop ran out on     *)
(* 429) or an error carrying a formatError message.                        *)
(***************************************************************************)
MaxSubRequests == 3

ToolNames == {"search_legal_precedents", "extract_legal_principles", "build_case_compilation",
              "format_citations", "verify_citations"}

Outcomes ==
  {Ok(v) : v \in Payloads \cup {JObject(<< >>), Undefined}}
    \cup {Err(AuthMessage), Err(NetworkMessage), Err(formatError(ApiError(500), <<"search">>))}

\* the result of running the body of a try block
Return(envelope) == [kind |-> "return", envelope |-> envelope, msg |-> << >>]
Throw(msg) == [kind |-> "throw", envelope |-> NoEnvelope, msg |-> msg]

\* `return { content: [{ type: "text", text: ... }] }` of the catch blocks
\* of build_case_compilation, format_citations and verify_citations
TextEnvelope(text) == [kind |-> "TEXT", message |-> text, docs |-> << >>]

\* `await promise`, the promise having no catch of its own
Await(outcome) == IF outcome.kind = "err" THEN Throw(outcome.msg) ELSE Return(Envelope("value", << >>))

\* search_legal_precedents: every variant carries its own `.catch`
searchHandler(outcomes) == searchJoin([i \in 1..Len(outcomes) |-> Settled([result |-> outcomes[i]])])

\* extract_legal_principles: the metadata call is awaited bare, the fragment
\* calls carry their own `.catch`
extractHandler(outcomes) ==
  LET metadata == Head(outcomes)
      fragments == Tail(outcomes)
  IN IF Await(metadata).kind = "throw"
       THEN ErrorEnvelope(formatError(metadata.msg, <<"extraction">>))
     ELSE extractJoin(metadata.data, [i \in 1..Len(fragments) |-> Settled([result |-> fragments[i]])])

\* build_case_compilation: every query is searched inside its own try/catch
compilationBody(outcomes) ==
  LET searchResults == [i \in 1..Len(outcomes) |-> Settled([result |-> outcomes[i]])]
  IN IF \E i \in 1..Len(searchResults) : Nullish(searchResults[i])
       THEN Throw(PropertyOfNullish(FirstNullish(searchResults), "docs"))
     ELSE Return(Envelope("MEMO", mergeDocs(searchResults, << >>)))

compilationHandler(outcomes) ==
  LET body == compilationBody(outcomes)
  IN IF body.kind = "throw"
       THEN TextEnvelope(<<"Error in case compilation: ">> \o body.msg
                         \o <<"\n\nTroubleshooting suggestions: ...">>)
     ELSE body.envelope

\* findParallelCitations: three searches with a `.catch` each, inside a try
\* whose catch is empty
RECURSIVE findParallelCitations(_, _)
findParallelCitations(results, citations) ==
  IF results = << >> THEN citations
  ELSE IF Nullish(Head(results)) THEN citations
  ELSE findParallelCitations(Tail(results), addDocs(citations, Head(results).docs))

\* format_citations: the metadata call is awaited bare
citationsBody(outcomes) ==
  LET metadata == Head(outcomes)
      searches == Tail(outcomes)
  IN IF Await(metadata).kind = "throw" THEN Throw(metadata.msg)
     ELSE IF Nullish(metadata.data) THEN Throw(PropertyOfNullish(metadata.data, "title"))
     ELSE Return(Envelope("CITATION",
            findParallelCitations([i \in 1..Len(searches) |-> Settled([result |-> searches[i]])], << >>)))

citationsHandler(outcomes) ==
  LET body == citationsBody(outcomes)
  IN IF body.kind = "throw" THEN TextEnvelope(body.msg) ELSE body.envelope

\* verify_citations: one search per citation and one more for a citation
\* that was not found, each with a `.catch`
verificationBody(outcomes) ==
  LET searchResult == Settled([result |-> outcomes[1]])
      secondSearch == Len(outcomes) >= 2
      altSearch == Settled([result |-> outcomes[2]])
  IN IF Nullish(searchResult) THEN Throw(PropertyOfNullish(searchResult, "docs"))
     ELSE IF searchResult.docs # << >> THEN Return(Envelope("VERIFICATION", searchResult.docs))
     ELSE IF secondSearch /\ Nullish(altSearch) THEN Throw(PropertyOfNullish(altSearch, "docs"))
     ELSE Return(Envelope("VERIFICATION", IF secondSearch THEN altSearch.docs ELSE << >>))

verificationHandler(outcomes) ==
  LET body == verificationBody(outcomes)
  IN IF body.kind = "throw" THEN TextEnvelope(body.msg) ELSE body.envelope

handler(name, outcomes) ==
  CASE name = "search_legal_precedents" -> searchHandler(outcomes)
    [] name = "extract_legal_principles" -> extractHandler(outcomes)
    [] name = "build_case_compilation" -> compilationHandler(outcomes)
    [] name = "format_citations" -> citationsHandler(outcomes)
    [] name = "verify_citations" -> verificationHandler(outcomes)

OutcomeLists == UNION {[1..n -> Outcomes] : n \in 1..MaxSubRequests}

HandlerArgs == {[fn |-> name, outcomes |-> outcomes] : name \in ToolNames, outcomes \in OutcomeLists}

\* a tool handler runs to its end on the outcomes of its sub-requests
RunToolHandler ==
  /\ args.fn \in ToolNames
  /\ ret = NoRet
  /\ ret' = handler(args.fn, args.outcomes)
  /\ UNCHANGED <<enableCaching, cacheTimeout, elapses, cache, calls,
                 requestQueue, slotTimer, sinceFetch, lastGap, tool, args>>

(***************************************************************************)
(* Query preprocessing and the diagnosis of a search without results.      *)
(* A string is the sequence of its words, joined by single blanks; an      *)
(* empty word stands for a place where two blanks meet.  What a regular    *)
(* expression says about a word is a table over the vocabulary.            *)
(***************************************************************************)
MaxWords == 3

Words == {"bail", "rape", "murder", "section", "302", "999", "IPC", "civil", "\"rape\""}

Queries == UNION {[1..n -> Words] : n \in 0..MaxWords}

toLowerCase(w) ==
  CASE w = "IPC" -> "ipc" [] w = "BNS" -> "bns" [] w = "CrPC" -> "crpc" [] w = "Section" -> "section"
    [] w = "Supreme" -> "supreme" [] w = "Court" -> "court"
    [] w = "High" -> "high" [] w = "HC" -> "hc" [] w = "District" -> "district"
    [] w = "Delhi" -> "delhi" [] w = "Tribunal" -> "tribunal" [] w = "Forum" -> "forum"
    [] w = "We Hold That" -> "we hold that"
    [] OTHER -> w

\* /\d+[A-Z]?/ and /\d{3}[A-Z]?/
IsSectionNumber(w) == w \in {"302", "999", "823", "498a"}

parseInt(w) == CASE w = "302" -> 302 [] w = "999" -> 999 [] w = "823" -> 823 [] w = "498a" -> 498
                 [] OTHER -> 0

\* the characters of a section string
chars(w) ==
  CASE w = "302" -> <<"3", "0", "2">> [] w = "999" -> <<"9", "9", "9">>
    [] w = "823" -> <<"8", "2", "3">> [] w = "498a" -> <<"4", "9", "8", "a">>

\* /"[^"]*"/
IsQuotedPhrase(w) == w = "\"rape\""

\* replace(/[^\w\s]/g, ' ') followed by split(/\s+/)
wordOf(w) == IF w = "\"rape\"" THEN "rape" ELSE w

\* /\b(bail|quashing|compromise|arrest|conviction|acquittal|sentence)\b/gi and
\* the two patterns after it
IsLegalConcept(w) ==
  toLowerCase(w) \in {"bail", "quashing", "compromise", "arrest", "conviction", "acquittal",
                      "sentence", "abetment"}

RECURSIVE unique(_, _)
\* [...new Set(items)]
unique(items, seen) ==
  IF items = << >> THEN seen
  ELSE unique(Tail(items), IF InSeq(Head(items), seen) THEN seen ELSE Append(seen, Head(items)))

slice(items, n) == SubSeq(items, 1, Min(n, Len(items)))

(***************************************************************************)
(* validateSection.  A section string is the sequence of its characters,   *)
(* so that parseInt, toString and substring act on it as they do in the    *)
(* source.                                                                 *)
(***************************************************************************)
MaxDigits == 3

Digits == <<"0", "1", "2", "3", "4", "5", "6", "7", "8", "9">>

IsDigit(c) == InSeq(c, Digits)

digitValue(c) == CHOOSE d \in 0..9 : Digits[d + 1] = c

\* [A-Z], over the letters of the section strings
IsUpperCase(c) == c \in {"A", "B"}

\* sectionNum.match(/^(\d+)([A-Z])?$/)[1], the empty string when there is no match
numMatch(sectionNum) ==
  LET n == Len(sectionNum)
      allDigits(k) == k >= 1 /\ \A i \in 1..k : IsDigit(sectionNum[i])
  IN IF allDigits(n) THEN sectionNum
     ELSE IF n >= 2 /\ allDigits(n - 1) /\ IsUpperCase(sectionNum[n]) THEN SubSeq(sectionNum, 1, n - 1)
     ELSE << >>

RECURSIVE parseDigits(_, _)
\* parseInt of a string of digits
parseDigits(digits, acc) ==
  IF digits = << >> THEN acc
  ELSE parseDigits(Tail(digits), 10 * acc + digitValue(Head(digits)))

RECURSIVE toString(_)
\* Number.prototype.toString of a number >= 0
toString(n) ==
  IF n < 10 THEN <<Digits[n + 1]>> ELSE Append(toString(n \div 10), Digits[(n % 10) + 1])

VALID_IPC_SECTIONS == [min |-> 1, max |-> 511]
VALID_BNS_SECTIONS == [min |-> 1, max |-> 358]
VALID_CRPC_SECTIONS == [min |-> 1, max |-> 484]

CodeTypes == {"IPC", "BNS", "CrPC"}

sectionRange(codeType) ==
  IF codeType = "BNS" THEN VALID_BNS_SECTIONS
  ELSE IF codeType = "CrPC" THEN VALID_CRPC_SECTIONS
  ELSE VALID_IPC_SECTIONS

InRange(num, range) == num >= range.min /\ num <= range.max

\* commonMistakes[num.toString()], the empty list when the table has no such key
commonMistakes(num) ==
  CASE num = 823 -> <<toString(323), toString(423)>>
    [] num = 523 -> <<toString(323), toString(423)>>
    [] num = 325 -> <<toString(323), toString(324), toString(326)>>
    [] num = 121 -> <<toString(120), Append(toString(120), "A"), Append(toString(120), "B")>>
    [] num = 412 -> <<toString(411), toString(413), toString(414)>>
    [] num = 299 -> <<toString(299), toString(300), toString(302)>>
    [] num = 380 -> <<toString(379), toString(381), toString(382)>>
    [] OTHER -> << >>

\* the suggestion obtained by removing the first digit of a number that is too high
withoutFirstDigit(num, range) ==
  LET withoutFirst == Tail(toString(num))
  IN IF num > range.max /\ num > 100 /\ Len(withoutFirst) > 0
        /\ InRange(parseDigits(withoutFirst, 0), range)
       THEN <<withoutFirst>> ELSE << >>

RECURSIVE nearbySections(_, _, _)
\* for (let offset of [-1, 1, -2, 2, -10, 10])
nearbySections(num, range, offsets) ==
  IF offsets = << >> THEN << >>
  ELSE (IF InRange(num + Head(offsets), range) THEN <<toString(num + Head(offsets))>> ELSE << >>)
       \o nearbySections(num, range, Tail(offsets))

\* the fields a result leaves out (suggestion, nearestValid) are empty here
validateSection(sectionNum, codeType) ==
  LET num == parseDigits(numMatch(sectionNum), 0)
      range == sectionRange(codeType)
      nearestValid == commonMistakes(num) \o withoutFirstDigit(num, range)
                      \o nearbySections(num, range, <<-1, 1, -2, 2, -10, 10>>)
  IN IF numMatch(sectionNum) = << >>
       THEN [isValid |-> FALSE, suggestion |-> "Invalid section format", nearestValid |-> << >>]
     ELSE IF InRange(num, range)
       THEN [isValid |-> TRUE, suggestion |-> "", nearestValid |-> << >>]
     ELSE [isValid |-> FALSE, suggestion |-> "appears invalid",
           nearestValid |-> slice(unique(nearestValid, << >>), 5)]

\* the strings /\d+[A-Z]?/gi matches whole: digits, then at most one letter of either case
SectionStrings ==
  UNION {{digits \o suffix : digits \in [1..n -> {Digits[d] : d \in 1..10}],
                             suffix \in {<< >>, <<"A">>, <<"a">>}} : n \in 1..MaxDigits}

ValidateArgs ==
  {[fn |-> "validateSection", sectionNum |-> sectionNum, codeType |-> codeType] :
     sectionNum \in SectionStrings, codeType \in CodeTypes}

RunValidateSection ==
  /\ args.fn = "validateSection"
  /\ ret = NoRet
  /\ ret' = [kind |-> "validation", validation |-> validateSection(args.sectionNum, args.codeType)]
  /\ UNCHANGED <<enableCaching, cacheTimeout, elapses, cache, calls,
                 requestQueue, slotTimer, sinceFetch, lastGap, tool, args>>

RECURSIVE pick(_, _)
\* the items whose flag is set, in order
pick(items, flags) ==
  IF items = << >> THEN << >>
  ELSE (IF Head(flags) THEN <<Head(items)>> ELSE << >>) \o pick(Tail(items), Tail(flags))

\* /\bsections?\s+(\d+[A-Z]?(?:\s*,\s*\d+[A-Z]?)*)/gi
AfterSectionWord(str, i) ==
  i > 1 /\ toLowerCase(str[i - 1]) \in {"section", "sections"} /\ IsSectionNumber(str[i])

\* /\bu\/s\s+(\d+[A-Z]?(?:\s*,\s*\d+[A-Z]?)*)/gi
AfterUs(str, i) == i > 1 /\ toLowerCase(str[i - 1]) = "u/s" /\ IsSectionNumber(str[i])

\* /\bsec\.?\s+(\d+[A-Z]?)/gi
AfterSec(str, i) == i > 1 /\ toLowerCase(str[i - 1]) \in {"sec", "sec."} /\ IsSectionNumber(str[i])

\* /\b(\d{3}[A-Z]?)\s+(?:IPC|BNS|CrPC)/gi
BeforeCodeName(str, i) ==
  i < Len(str) /\ IsSectionNumber(str[i]) /\ toLowerCase(str[i + 1]) \in {"ipc", "bns", "crpc"}

ConceptAt(str, i) == IsLegalConcept(str[i])

RECURSIVE interleave(_, _)
\* str.replace(/\s+/g, sep) on a string without doubled blanks
interleave(str, sep) ==
  IF Len(str) <= 1 THEN str ELSE <<Head(str), sep>> \o interleave(Tail(str), sep)

RECURSIVE join(_, _)
join(pieces, sep) ==
  IF pieces = << >> THEN << >>
  ELSE IF Len(pieces) = 1 THEN pieces[1]
  ELSE pieces[1] \o sep \o join(Tail(pieces), sep)

QuotedSection(sec) == <<"\"Section ", sec, "\"">>
SectionIPC(sec) == <<"Section", sec, "IPC">>
PlainSection(sec) == <<"Section", sec>>
QuotedSectionIPC(sec) == <<"\"Section ", sec, "\" IPC">>

preprocessQuery(query) ==
  LET extractedSections ==
        pick(query, [i \in 1..Len(query) |-> AfterSectionWord(query, i)])
        \o pick(query, [i \in 1..Len(query) |-> AfterUs(query, i)])
        \o pick(query, [i \in 1..Len(query) |-> AfterSec(query, i)])
        \o pick(query, [i \in 1..Len(query) |-> BeforeCodeName(query, i)])
      codeType == IF \E i \in 1..Len(query) : toLowerCase(query[i]) = "bns" THEN "BNS"
                  ELSE IF \E i \in 1..Len(query) : toLowerCase(query[i]) = "crpc" THEN "CrPC"
                  ELSE "IPC"
      validatedSections ==
        [i \in 1..Len(extractedSections) |->
           LET trimmed == chars(extractedSections[i])
               validation == validateSection(trimmed, codeType)
           IN [original |-> trimmed,
               validated |-> IF validation.isValid \/ validation.nearestValid = << >>
                               THEN trimmed ELSE validation.nearestValid[1],
               isValid |-> validation.isValid,
               suggestions |-> validation.nearestValid]]
      conceptWords == pick(query, [i \in 1..Len(query) |-> ConceptAt(query, i)])
      legalConcepts == [i \in 1..Len(conceptWords) |-> toLowerCase(conceptWords[i])]
      normalized == query
      sectionVariants ==
        IF extractedSections # << >>
          THEN <<join([i \in 1..Len(extractedSections) |-> QuotedSection(extractedSections[i])], <<" ">>),
                 join([i \in 1..Len(extractedSections) |-> SectionIPC(extractedSections[i])], << >>)>>
               \o (IF legalConcepts # << >> THEN << <<extractedSections[1], legalConcepts[1]>> >> ELSE << >>)
        ELSE << >>
  IN [originalQuery |-> query,
      normalizedQuery |-> normalized,
      extractedSections |-> extractedSections,
      validatedSections |-> validatedSections,
      legalConcepts |-> legalConcepts,
      searchVariants |-> sectionVariants \o <<normalized, interleave(normalized, "ANDD")>>]

MaxQueryWords == 4

SectionWords == {"Section", "u/s", "302", "823", "498a", "IPC", "BNS", "bail"}

SectionQueries == UNION {[1..n -> SectionWords] : n \in 1..MaxQueryWords}

PreprocessArgs == {[fn |-> "preprocessQuery", query |-> query] : query \in SectionQueries}

RunPreprocessQuery ==
  /\ args.fn = "preprocessQuery"
  /\ ret = NoRet
  /\ ret' = [kind |-> "processed", processed |-> preprocessQuery(args.query)]
  /\ UNCHANGED <<enableCaching, cacheTimeout, elapses, cache, calls,
                 requestQueue, slotTimer, sinceFetch, lastGap, tool, args>>

RECURSIVE trimStart(_)
trimStart(str) == IF str # << >> /\ Head(str) = "" THEN trimStart(Tail(str)) ELSE str

RECURSIVE trimEnd(_)
trimEnd(str) ==
  IF str # << >> /\ str[Len(str)] = "" THEN trimEnd(SubSeq(str, 1, Len(str) - 1)) ELSE str

trim(str) == trimEnd(trimStart(str))

IsMainKeyword(str, i) ==
  Len(str[i]) > 4 /\ toLowerCase(str[i]) \notin {"under", "section", "with", "read"}

\* toLowerCase().includes('bail') and toLowerCase().includes('quash')
ContainsBail(w) == toLowerCase(w) = "bail"
ContainsQuash(w) == FALSE

\* Strategy 5: the generic searches for a query that contains 'bail' or 'quash'
GenericAlternatives(originalQuery) ==
  (IF \E i \in 1..Len(originalQuery) : ContainsBail(originalQuery[i])
     THEN << <<"bail", "application", "granted">>, <<"anticipatory", "bail", "guidelines">> >>
   ELSE << >>)
  \o (IF \E i \in 1..Len(originalQuery) : ContainsQuash(originalQuery[i])
        THEN << <<"482", "CrPC", "quashing">>, <<"FIR", "quashing", "grounds">> >>
      ELSE << >>)

generateAlternativeQueries(originalQuery, processed) ==
  LET sections == processed.extractedSections
      concepts == processed.legalConcepts
      strategy1 == IF sections # << >>
                     THEN <<join([i \in 1..Len(sections) |-> PlainSection(sections[i])], << >>),
                            join([i \in 1..Len(sections) |-> QuotedSectionIPC(sections[i])], <<" ORR ">>)>>
                   ELSE << >>
      strategy2 == IF concepts # << >>
                     THEN <<concepts>> \o (IF sections # << >> THEN << <<concepts[1], sections[1]>> >> ELSE << >>)
                   ELSE << >>
      withoutQuotes == trim([i \in 1..Len(originalQuery) |->
                               IF IsQuotedPhrase(originalQuery[i]) THEN "" ELSE originalQuery[i]])
      strategy3 == IF (\E i \in 1..Len(originalQuery) : IsQuotedPhrase(originalQuery[i]))
                      /\ withoutQuotes # << >>
                     THEN <<withoutQuotes>> ELSE << >>
      words == [i \in 1..Len(originalQuery) |-> wordOf(originalQuery[i])]
      mainKeywords == slice(pick(words, [i \in 1..Len(words) |-> IsMainKeyword(words, i)]), 3)
      strategy4 == IF mainKeywords # << >> THEN <<mainKeywords>> ELSE << >>
      alternatives == strategy1 \o strategy2 \o strategy3 \o strategy4
  IN slice(unique(IF alternatives = << >> THEN GenericAlternatives(originalQuery) ELSE alternatives,
                  << >>), 5)

analyzeSearchFailure(query, processed) ==
  LET tooSpecific == (IF query = << >> THEN 1 ELSE Len(query)) > 10
      invalidSections == \E i \in 1..Len(processed.extractedSections) :
                            parseInt(processed.extractedSections[i]) > 511
                            \/ parseInt(processed.extractedSections[i]) < 1
      mixed == InSeq("civil", query) /\ InSeq("IPC", query)
  IN [reason |-> IF mixed THEN "Query mixes civil and criminal law terms"
                 ELSE IF invalidSections THEN "Some section numbers appear invalid"
                 ELSE IF tooSpecific THEN "Query may be too specific"
                 ELSE "No exact matches found for your query",
      alternativeQueries |-> generateAlternativeQueries(query, processed)]

(***************************************************************************)
(* Relevance scores.  A score is a fraction <<numerator, denominator>> in  *)
(* lowest terms; the court label of a document is the sequence of its      *)
(* words and a keyword is found in it when its words occur in a row.       *)
(***************************************************************************)
RECURSIVE GCD(_, _)
GCD(a, b) == IF b = 0 THEN a ELSE GCD(b, a % b)

Frac(n, d) == <<n \div GCD(n, d), d \div GCD(n, d)>>
Times(x, y) == Frac(x[1] * y[1], x[2] * y[2])
AtLeast(x, y) == x[1] * y[2] >= y[1] * x[2]
Above(x, y) == x[1] * y[2] > y[1] * x[2]
One == Frac(1, 1)

\* Number.toFixed(2), in hundredths
toFixed2(x) == (200 * x[1] + x[2]) \div (2 * x[2])

includesPhrase(str, phrase) ==
  \E i \in 0..(Len(str) - Len(phrase)) : \A j \in 1..Len(phrase) : str[i + j] = phrase[j]

lower(str) == [i \in 1..Len(str) |-> toLowerCase(str[i])]

\* a doctype that is a number, and a field that is missing
NumericDoctype == <<"#">>
Missing == << >>

courtStr(doc) == lower(IF doc.doctype # NumericDoctype THEN doc.doctype ELSE doc.docsource)

identifyCourt(doc) ==
  LET str == courtStr(doc)
      has(phrase) == includesPhrase(str, phrase)
  IN IF has(<<"supreme">>) \/ has(<<"apex">>) THEN "supreme"
     ELSE IF has(<<"high", "court">>) \/ has(<<"hc">>) THEN "high"
     ELSE IF has(<<"district">>) \/ has(<<"sessions">>) THEN "district"
     ELSE IF has(<<"tribunal">>) \/ has(<<"appellate">>) THEN "tribunal"
     ELSE IF has(<<"commission">>) THEN "commission"
     ELSE IF \E hc \in {"delhi", "bombay", "madras", "calcutta", "karnataka",
                        "kerala", "punjab", "gujarat", "rajasthan"} : has(<<hc>>) THEN "high"
     ELSE "other"

\* a classification that tests the lower courts first
courtMultiplierLowestFirst(doc) ==
  LET str == courtStr(doc)
      has(phrase) == includesPhrase(str, phrase)
  IN IF has(<<"district">>) \/ has(<<"sessions">>) THEN One
     ELSE IF has(<<"supreme">>) \/ has(<<"apex">>) THEN Frac(15, 10)
     ELSE IF identifyCourt(doc) = "high" THEN Frac(12, 10)
     ELSE IF identifyCourt(doc) = "tribunal" THEN Frac(9, 10)
     ELSE One

courtMultiplier(doc) ==
  LET courtType == identifyCourt(doc)
  IN IF courtType = "supreme" THEN Frac(15, 10)
     ELSE IF courtType = "high" THEN Frac(12, 10)
     ELSE IF courtType = "district" THEN Frac(10, 10)
     ELSE IF courtType = "tribunal" THEN Frac(9, 10)
     ELSE One

\* new Date().getFullYear()
currentYear == 2026

\* parseInt(doc.publishdate?.split('-')[0] || '0')
publishYear(doc) == IF doc.publishdate = Missing THEN 0 ELSE doc.publishdate[1]

recencyMultiplier(doc) == IF currentYear - publishYear(doc) <= 2 THEN Frac(13, 10) ELSE One

\* doc.numcitedby || 0
citedBy(doc) == IF doc.numcitedby = Missing THEN 0 ELSE doc.numcitedby[1]

\* both bonuses applied to a much-cited document
citationMultiplierBoth(doc) ==
  Times(IF citedBy(doc) > 20 THEN Frac(14, 10) ELSE One,
        IF citedBy(doc) > 10 THEN Frac(12, 10) ELSE One)

citationMultiplier(doc) ==
  IF citedBy(doc) > 20 THEN Frac(14, 10)
  ELSE IF citedBy(doc) > 10 THEN Frac(12, 10)
  ELSE One

calculateRelevanceScore(doc) ==
  Times(Times(Times(One, courtMultiplier(doc)), recencyMultiplier(doc)), citationMultiplier(doc))

MaxLabelWords == 2

CourtWords == {"Supreme", "apex", "High", "Court", "HC", "District", "sessions",
               "Tribunal", "commission", "Delhi", "Forum"}

CourtLabels == UNION {[1..n -> CourtWords] : n \in 0..MaxLabelWords}

CitedByCounts == {Missing, <<0>>, <<10>>, <<11>>, <<20>>, <<21>>}

PublishDates == {Missing, <<2020>>, <<2024>>}

Doc(tid, doctype, docsource, publishdate, numcitedby, text) ==
  [tid |-> tid, doctype |-> doctype, docsource |-> docsource,
   publishdate |-> publishdate, numcitedby |-> numcitedby, text |-> text]

ScoredDocuments ==
  {Doc(1, label, Missing, date, cited, << >>) :
     label \in CourtLabels, date \in PublishDates, cited \in CitedByCounts}
  \cup {Doc(1, NumericDoctype, label, date, cited, << >>) :
          label \in CourtLabels, date \in PublishDates, cited \in CitedByCounts}

ScoreArgs == {[fn |-> "calculateRelevanceScore", doc |-> doc] : doc \in ScoredDocuments}

RunRelevanceScore ==
  /\ args.fn = "calculateRelevanceScore"
  /\ ret = NoRet
  /\ ret' = [kind |-> "score", score |-> calculateRelevanceScore(args.doc)]
  /\ UNCHANGED <<enableCaching, cacheTimeout, elapses, cache, calls,
                 requestQueue, slotTimer, sinceFetch, lastGap, tool, args>>

(***************************************************************************)
(* search_legal_precedents from the merged documents on: the diagnosis of  *)
(* an empty result, the court filter, scoring, threshold, sort and slice.  *)
(***************************************************************************)
MaxDocs == 3

\* `${doc.title} ${doc.headline || ''}`.toLowerCase()
docText(doc) == lower(doc.text)

matchesSection(doc, section) ==
  \/ includesPhrase(docText(doc), <<"section", section>>)
  \/ includesPhrase(docText(doc), <<section, "ipc">>)
  \/ includesPhrase(docText(doc), <<"sec.", section>>)
  \/ includesPhrase(docText(doc), <<"s.", section>>)

IsQueryWord(str, i) == Len(str[i]) > 3 /\ str[i] \notin {"under", "section", "with"}

calculateQueryRelevance(query, doc, baseScore) ==
  LET sections == query.extractedSections
      concepts == query.legalConcepts
      normalizedWords == lower(query.normalizedQuery)
      queryWords == pick(normalizedWords,
                         [i \in 1..Len(normalizedWords) |-> IsQueryWord(normalizedWords, i)])
      sectionMatches == Cardinality({i \in 1..Len(sections) : matchesSection(doc, sections[i])})
      conceptMatches == Cardinality({i \in 1..Len(concepts) : InSeq(concepts[i], docText(doc))})
      wordMatches == Cardinality({i \in 1..Len(queryWords) : InSeq(queryWords[i], docText(doc))})
      afterSections ==
        IF sections = << >> THEN baseScore
        ELSE IF sectionMatches > 0
          THEN Times(baseScore, Frac(10 * Len(sections) + 4 * sectionMatches, 10 * Len(sections)))
        ELSE Times(baseScore, Frac(5, 10))
      afterConcepts ==
        IF concepts # << >> /\ conceptMatches > 0
          THEN Times(afterSections, Frac(10 * Len(concepts) + 3 * conceptMatches, 10 * Len(concepts)))
        ELSE afterSections
  IN IF queryWords # << >>
       THEN Times(afterConcepts, Frac(10 * Len(queryWords) + 2 * wordMatches, 10 * Len(queryWords)))
     ELSE afterConcepts

\* an optional argument that was not given
NoCourtLevel == ""

CourtLevels == {NoCourtLevel, "all", "supremecourt", "delhi"}

courtMappings(courtLevel) ==
  CASE courtLevel = "supremecourt" -> {<<"supreme", "court">>, <<"apex">>}
    [] courtLevel = "delhi" -> {<<"delhi", "high", "court">>, <<"delhi", "hc">>}
    [] courtLevel = "bombay" -> {<<"bombay", "high", "court">>, <<"bombay", "hc">>, <<"mumbai">>}
    [] courtLevel = "madras" -> {<<"madras", "high", "court">>, <<"madras", "hc">>, <<"chennai">>}
    [] courtLevel = "calcutta" -> {<<"calcutta", "high", "court">>, <<"calcutta", "hc">>, <<"kolkata">>}
    [] OTHER -> {}

\* (doc.docsource || doc.doctype || '').toString()
docCourt(doc) == IF doc.docsource # Missing THEN doc.docsource ELSE doc.doctype

inAcceptedCourt(doc, courtLevel) ==
  \E court \in courtMappings(courtLevel) : includesPhrase(lower(docCourt(doc)), court)

courtFilter(allDocs, courtLevel) ==
  IF courtLevel # NoCourtLevel /\ courtLevel # "all"
    THEN pick(allDocs, [i \in 1..Len(allDocs) |-> inAcceptedCourt(allDocs[i], courtLevel)])
  ELSE allDocs

\* an insertion that puts a document in front of the documents of equal score
insertBeforeEqual(sorted, x) ==
  LET before == {i \in 1..Len(sorted) : Above(sorted[i].relevanceScore, x.relevanceScore)}
      k == Cardinality(before)
  IN SubSeq(sorted, 1, k) \o <<x>> \o SubSeq(sorted, k + 1, Len(sorted))

\* the place of x in a list sorted by `b.relevanceScore - a.relevanceScore`:
\* behind every document that scores at least as much
insert(sorted, x) ==
  LET before == {i \in 1..Len(sorted) : AtLeast(sorted[i].relevanceScore, x.relevanceScore)}
      k == Cardinality(before)
  IN SubSeq(sorted, 1, k) \o <<x>> \o SubSeq(sorted, k + 1, Len(sorted))

RECURSIVE sortInto(_, _)
sortInto(sorted, rest) ==
  IF rest = << >> THEN sorted ELSE sortInto(insert(sorted, Head(rest)), Tail(rest))

\* Array.prototype.sort((a, b) => b.relevanceScore - a.relevanceScore), a stable sort
sortByRelevance(docs) == sortInto(<< >>, docs)

formatResult(scored, note) ==
  [id |-> scored.doc.tid, relevanceScore |-> toFixed2(scored.relevanceScore), relevanceNote |-> note]

BelowThresholdNote == "Below threshold but best available matches"

searchResponse(query, allDocs, courtLevel, relevanceThreshold, limit) ==
  LET processedQuery == preprocessQuery(query)
      failureAnalysis == analyzeSearchFailure(query, processedQuery)
      filteredDocs == courtFilter(allDocs, courtLevel)
      scoredDocs == [i \in 1..Len(filteredDocs) |->
                       [doc |-> filteredDocs[i],
                        relevanceScore |-> calculateQueryRelevance(processedQuery, filteredDocs[i],
                                             calculateRelevanceScore(filteredDocs[i]))]]
      relevantDocs == pick(scoredDocs, [i \in 1..Len(scoredDocs) |->
                                          AtLeast(scoredDocs[i].relevanceScore, relevanceThreshold)])
      topDocs == slice(sortByRelevance(relevantDocs), limit)
      bestAvailable == slice(sortByRelevance(scoredDocs), Min(5, limit))
  IN IF allDocs = << >>
       THEN [kind |-> "response", searchStatus |-> "NO_RESULTS", cases |-> << >>,
             reason |-> failureAnalysis.reason,
             alternativeQueries |-> failureAnalysis.alternativeQueries]
     ELSE IF topDocs = << >> /\ scoredDocs # << >>
       THEN [kind |-> "response", searchStatus |-> "LOW_RELEVANCE",
             cases |-> [i \in 1..Len(bestAvailable) |-> formatResult(bestAvailable[i], BelowThresholdNote)],
             reason |-> "", alternativeQueries |-> << >>]
     ELSE [kind |-> "response", searchStatus |-> "SUCCESS",
           cases |-> [i \in 1..Len(topDocs) |-> formatResult(topDocs[i], "")],
           reason |-> "", alternativeQueries |-> << >>]

SupremeCourt == <<"Supreme", "Court">>
DistrictCourt == <<"District", "Court">>
DelhiHighCourt == <<"Delhi", "High", "Court">>

DocPool ==
  {Doc(1, NumericDoctype, SupremeCourt, <<2020>>, Missing, <<"murder">>),
   Doc(2, NumericDoctype, SupremeCourt, <<2020>>, Missing, <<"murder">>),
   Doc(3, NumericDoctype, DistrictCourt, <<2020>>, <<0>>, << >>),
   Doc(4, NumericDoctype, DelhiHighCourt, <<2024>>, <<21>>, <<"section", "302">>),
   Doc(5, <<"Tribunal">>, Missing, <<2020>>, <<11>>, <<"bail">>)}

\* lists of documents with distinct tids, as the merge leaves them
DocLists ==
  {docs \in UNION {[1..n -> DocPool] : n \in 1..MaxDocs} :
     \A i, j \in 1..Len(docs) : i # j => docs[i].tid # docs[j].tid}

Thresholds == {Frac(0, 1), Frac(1, 2), Frac(3, 2), Frac(5, 1)}

Limits == {1, 2, 20}

ResponseArgs ==
  {[fn |-> "searchResponse", query |-> query, allDocs |-> << >>, courtLevel |-> NoCourtLevel,
    relevanceThreshold |-> Frac(1, 2), limit |-> 20] : query \in Queries}
  \cup {[fn |-> "searchResponse", query |-> query, allDocs |-> docs, courtLevel |-> level,
         relevanceThreshold |-> threshold, limit |-> limit] :
          query \in {<<"murder">>, <<"section", "302", "bail">>}, docs \in DocLists,
          level \in CourtLevels, threshold \in Thresholds, limit \in Limits}

RunSearchResponse ==
  /\ args.fn = "searchResponse"
  /\ ret = NoRet
  /\ ret' = searchResponse(args.query, args.allDocs, args.courtLevel,
                           args.relevanceThreshold, args.limit)
  /\ UNCHANGED <<enableCaching, cacheTimeout, elapses, cache, calls,
                 requestQueue, slotTimer, sinceFetch, lastGap, tool, args>>

(***************************************************************************)
(* search_legal_precedents from `await Promise.all(searchPromises)` to the *)
(* answer, the variant searches settling in any order.  A payload lists    *)
(* the tids of its documents.                                              *)
(***************************************************************************)
RECURSIVE settleInto(_, _, _)
\* Promise.all: a promise that settles puts its value at its own index
settleInto(values, order, results) ==
  IF order = << >> THEN results
  ELSE settleInto(values, Tail(order), [results EXCEPT ![Head(order)] = values[Head(order)]])

\* an array filled in the order in which the promises settle
promiseAllAsSettled(values, order) == [k \in 1..Len(order) |-> values[order[k]]]

\* the array Promise.all resolves with when the promises settle in order `order`
promiseAll(values, order) == settleInto(values, order, [i \in 1..Len(values) |-> Undefined])

docWithTid(tid) == CHOOSE doc \in DocPool : doc.tid = tid

\* the merged documents (or the error of the merge) and the answer built from them
searchAnswer(query, outcomes, order) ==
  LET searchPromises == [i \in 1..Len(outcomes) |-> Settled([result |-> outcomes[i]])]
      merged == searchJoin(promiseAll(searchPromises, order))
  IN [kind |-> "answer",
      merged |-> merged,
      response |-> IF merged.kind = "ERROR" THEN merged
                   ELSE searchResponse(query, [i \in 1..Len(merged.docs) |-> docWithTid(merged.docs[i])],
                                       NoCourtLevel, Frac(1, 2), 20)]

\* the orders in which n promises can settle
Orders(n) == {order \in [1..n -> 1..n] : \A i, j \in 1..n : order[i] = order[j] => i = j}

JoinOutcomes ==
  {Ok(JObject(docs)) : docs \in {<< >>, <<1>>, <<2>>, <<2, 1>>, <<1, 3>>}}
    \cup {Ok(Undefined), Err(NetworkMessage)}

JoinArgs ==
  UNION {{[fn |-> "searchAnswer", outcomes |-> outcomes, order |-> order] :
            outcomes \in [1..n -> JoinOutcomes], order \in Orders(n)} : n \in 1..MaxSubRequests}

RunSearchAnswer ==
  /\ args.fn = "searchAnswer"
  /\ ret = NoRet
  /\ ret' = searchAnswer(<<"murder">>, args.outcomes, args.order)
  /\ UNCHANGED <<enableCaching, cacheTimeout, elapses, cache, calls,
                 requestQueue, slotTimer, sinceFetch, lastGap, tool, args>>

(***************************************************************************)
(* The legal weight of a paragraph in extract_legal_principles.  The text  *)
(* of a paragraph is the sequence of its phrases; a pattern /phrase/i      *)
(* matches when the phrase, in any case, is one of them.                   *)
(***************************************************************************)
Marker(category, patterns) == [category |-> category, patterns |-> patterns]

\* Object.entries(legalMarkers): the categories in the order of their
\* declaration, each with patterns of its list
legalMarkers ==
  <<Marker("ratioDecidendi", {"we hold that", "it is settled law"}),
    Marker("obiterDicta", {"it may be noted", "incidentally"}),
    Marker("distinguishing", {"however in the present case", "facts are different"}),
    Marker("following", {"following the decision", "relying on"}),
    Marker("overruling", {"overruled"}),
    Marker("proceduralDirections", {"directed to"}),
    Marker("concessionsAdmissions", {"fairly conceded"}),
    Marker("judicialDisagreement", {"with respect"}),
    Marker("statutoryInterpretation", {"plain meaning"}),
    Marker("evidenceEvaluation", {"cogent evidence"})>>

\* patterns.filter(pattern => pattern.test(para.text))
matches(patterns, text) == {pattern \in patterns : InSeq(pattern, lower(text))}

DefaultWeight == [legalWeight |-> "Supporting Observation", confidence |-> 50, weightDetails |-> << >>]

\* an overruling case that leaves out the test for a ratio already found
overrulingUnguarded(legalWeight) == TRUE

\* `if (legalWeight !== "Ratio Decidendi")`
overrulingApplies(legalWeight) == legalWeight # "Ratio Decidendi"

\* the switch on the category: the label and confidence after a category
\* that matched n patterns
assignWeight(w, category, n) ==
  LET set(label, confidence) == [w EXCEPT !.legalWeight = label, !.confidence = confidence]
      isDefault == w.legalWeight = "Supporting Observation"
  IN CASE category = "ratioDecidendi" -> set("Ratio Decidendi", Min(90 + n * 2, 100))
       [] category = "overruling" ->
            IF overrulingApplies(w.legalWeight) THEN set("Overruling Precedent", 85) ELSE w
       [] category = "statutoryInterpretation" ->
            IF w.legalWeight \notin {"Ratio Decidendi", "Overruling Precedent"}
              THEN set("Statutory Interpretation", 80) ELSE w
       [] category = "evidenceEvaluation" ->
            IF w.legalWeight \notin {"Ratio Decidendi", "Overruling Precedent", "Statutory Interpretation"}
              THEN set("Evidence Analysis", 75) ELSE w
       [] category = "following" -> IF isDefault THEN set("Following Precedent", 80) ELSE w
       [] category = "distinguishing" -> IF isDefault THEN set("Distinguishing", 70) ELSE w
       [] category = "proceduralDirections" -> IF isDefault THEN set("Procedural Direction", 65) ELSE w
       [] category = "concessionsAdmissions" -> IF isDefault THEN set("Concession/Admission", 70) ELSE w
       [] category = "judicialDisagreement" -> IF isDefault THEN set("Judicial Disagreement", 60) ELSE w
       [] category = "obiterDicta" -> IF isDefault THEN set("Obiter Dicta", 55) ELSE w
       [] OTHER -> w

RECURSIVE weighFrom(_, _, _)
\* the loop over the categories, from the k-th on
weighFrom(w, k, text) ==
  IF k > Len(legalMarkers) THEN w
  ELSE LET marker == legalMarkers[k]
           n == Cardinality(matches(marker.patterns, text))
       IN IF n > 0
            THEN weighFrom(assignWeight([w EXCEPT !.weightDetails = Append(@, marker.category)],
                                        marker.category, n),
                           k + 1, text)
          ELSE weighFrom(w, k + 1, text)

legalWeightOf(text) == weighFrom(DefaultWeight, 1, text)

PhraseList ==
  <<"we hold that", "We Hold That", "incidentally", "facts are different", "relying on",
    "overruled", "directed to", "fairly conceded", "with respect", "plain meaning",
    "cogent evidence", "the appellant submits", "it is settled law", "following the decision">>

\* the paragraphs made of any of the phrases
Paragraphs == {pick(PhraseList, flags) : flags \in [1..Len(PhraseList) -> BOOLEAN]}

WeightArgs == {[fn |-> "legalWeight", text |-> text] : text \in Paragraphs}

RunLegalWeight ==
  /\ args.fn = "legalWeight"
  /\ ret = NoRet
  /\ ret' = [kind |-> "weight"] @@ legalWeightOf(args.text)
  /\ UNCHANGED <<enableCaching, cacheTimeout, elapses, cache, calls,
                 requestQueue, slotTimer, sinceFetch, lastGap, tool, args>>

(***************************************************************************)
(* Citations.  A citation string is the sequence of its blank-separated    *)
(* words; what a pattern says about one word is a table over the words the *)
(* templates and the inputs can produce.                                   *)
(***************************************************************************)
Has(object, field) == field \in DOMAIN object

\* `[No. ${new Date().getFullYear()}]`
NoCaseNumber == <<"[No.", "2026]">>

\* the relurl and title patterns are not modelled beyond the fields being absent
extractCaseNumber(metadata) ==
  IF Has(metadata, "caseno") /\ metadata.caseno # << >> THEN metadata.caseno
  ELSE IF Has(metadata, "tid") THEN <<metadata.tid>>
  ELSE NoCaseNumber

\* `(${elements.year})`
paren(year) ==
  CASE year = <<"2020">> -> "(2020)" [] year = <<"1986">> -> "(1986)" [] OTHER -> "()"

\* `${elements.parties},`
withComma(parties) ==
  IF parties = << >> THEN <<",">>
  ELSE SubSeq(parties, 1, Len(parties) - 1) \o <<"Kumar,">>

\* `IN${courtCode}`, courtCode 'SC' or the first three characters in upper case
neutralCode(court) ==
  IF InSeq("Supreme", court) THEN "INSC"
  ELSE CASE court[1] = "Delhi" -> "INDEL" [] court[1] = "SC" -> "INSC" [] OTHER -> "INUNK"

courtAbbr(court) ==
  IF InSeq("Supreme", court) THEN "SC"
  ELSE IF InSeq("Delhi", court) THEN "Del"
  ELSE IF InSeq("Bombay", court) THEN "Bom"
  ELSE IF InSeq("Madras", court) THEN "Mad"
  ELSE IF InSeq("Calcutta", court) THEN "Cal"
  ELSE "HC"

\* formatted.full
formatCitation(elements, style) ==
  LET caseNumber == extractCaseNumber(elements)
  IN CASE style = "AIR" -> elements.year \o <<"AIR">> \o elements.court \o caseNumber
       [] style = "SCC" -> elements.parties \o <<paren(elements.year), "SCC">> \o caseNumber
       [] style = "Neutral" -> elements.year \o <<neutralCode(elements.court)>> \o caseNumber
       [] style = "SCC OnLine" ->
            withComma(elements.parties) \o elements.year
            \o <<"SCC", "OnLine", courtAbbr(elements.court)>> \o caseNumber
       [] OTHER -> elements.parties \o <<paren(elements.year)>> \o elements.court

\* /(?:19|20)\d{2}/
IsYear(w) == w \in {"2020", "1986"}

\* /(?:\()?(?:19|20)\d{2}\)?/
IsYearInParens(w) == IsYear(w) \/ w \in {"(2020)", "(1986)"}

\* /\d+/
IsNumber(w) == w \in {"123", "515", "2020", "1986"}

\* /[A-Z][a-z]*/ and /[A-Z][a-z]+/
IsCapitalised(w) == w \in {"Supreme", "Court", "Delhi", "High", "State", "Kumar", "Del"}

\* /IN[A-Z]{2,4}/
IsNeutralCode(w) == w \in {"INSC", "INDEL", "INUNK"}

\* CITATION_PATTERNS[format].pattern.test(cleaned)
patternTest(format, cleaned) ==
  LET n == Len(cleaned)
  IN CASE format = "AIR" ->
            /\ n \in 3..5
            /\ IsYearInParens(cleaned[1]) /\ cleaned[2] = "AIR" /\ IsNumber(cleaned[n])
            /\ \A i \in 3..(n - 1) : IsCapitalised(cleaned[i])
       [] format = "SCC" ->
            /\ n \in 3..4
            /\ IsYearInParens(cleaned[1]) /\ cleaned[n - 1] = "SCC" /\ IsNumber(cleaned[n])
            /\ n = 4 => IsNumber(cleaned[2])
       [] format = "SCC_OnLine" ->
            /\ n = 5
            /\ IsYear(cleaned[1]) /\ cleaned[2] = "SCC" /\ cleaned[3] = "OnLine"
            /\ IsCapitalised(cleaned[4]) /\ IsNumber(cleaned[5])
       [] format = "SCCOnLine" ->
            /\ n = 4
            /\ IsYear(cleaned[1]) /\ cleaned[2] = "SCCOnLine"
            /\ IsCapitalised(cleaned[3]) /\ IsNumber(cleaned[4])
       [] format = "Neutral" ->
            n = 3 /\ IsYear(cleaned[1]) /\ IsNeutralCode(cleaned[2]) /\ IsNumber(cleaned[3])

\* Object.entries(CITATION_PATTERNS), in declaration order
CITATION_PATTERNS == <<"AIR", "SCC", "SCC_OnLine", "SCCOnLine", "Neutral">>

RECURSIVE applyFixes(_)
\* Dell -> Del, Supreme Court -> SC, High Court -> HC
applyFixes(str) ==
  IF str = << >> THEN << >>
  ELSE IF Head(str) = "Dell" THEN <<"Del">> \o applyFixes(Tail(str))
  ELSE IF Len(str) >= 2 /\ Head(str) = "Supreme" /\ str[2] = "Court"
    THEN <<"SC">> \o applyFixes(Tail(Tail(str)))
  ELSE IF Len(str) >= 2 /\ Head(str) = "High" /\ str[2] = "Court"
    THEN <<"HC">> \o applyFixes(Tail(Tail(str)))
  ELSE <<Head(str)>> \o applyFixes(Tail(str))

\* format and suggestion are empty where the result leaves them out
validateCitation(citation) ==
  LET matching == pick(CITATION_PATTERNS,
                       [i \in 1..Len(CITATION_PATTERNS) |-> patternTest(CITATION_PATTERNS[i], citation)])
      suggested == applyFixes(citation)
  IN IF matching # << >>
       THEN [isValid |-> TRUE, format |-> matching[1], suggestion |-> << >>]
     ELSE [isValid |-> FALSE, format |-> "",
           suggestion |-> IF suggested # citation THEN suggested ELSE << >>]

CitationStyles == {"AIR", "SCC", "Neutral", "SCC OnLine", "Bluebook"}

CitationElements ==
  [parties : {<<"State", "v.", "Kumar">>, << >>},
   court : {<<"Supreme", "Court">>, <<"Delhi", "High", "Court">>, <<"SC">>, <<"Unknown", "Court">>},
   year : {<<"2020">>, <<"1986">>, << >>},
   caseNumber : {<<"123">>, <<"515">>, <<"IA--9089-2010">>}]

CitationArgs ==
  {[fn |-> "formatCitation", elements |-> elements, style |-> style] :
     elements \in CitationElements, style \in CitationStyles}

\* a citation is formatted and the full form is handed to validateCitation
RunFormatCitation ==
  /\ args.fn = "formatCitation"
  /\ ret = NoRet
  /\ ret' = [kind |-> "citation",
             full |-> formatCitation(args.elements, args.style),
             validation |-> validateCitation(formatCitation(args.elements, args.style))]
  /\ UNCHANGED <<enableCaching, cacheTimeout, elapses, cache, calls,
                 requestQueue, slotTimer, sinceFetch, lastGap, tool, args>>

(***************************************************************************)
(* Truncation at a sentence boundary.  A text is the sequence of its       *)
(* characters; positions are counted from 0 as in the source, so the       *)
(* character at position p is text[p + 1].                                 *)
(***************************************************************************)
MaxTail == 5

IsWhitespace(c) == c \in {" ", "\n"}

\* the pattern of the list matches searchText at index i (counted from 1)
matchesAt(pattern, searchText, i) ==
  LET n == Len(searchText)
      is(j, c) == j <= n /\ searchText[j] = c
      blank(j) == j <= n /\ IsWhitespace(searchText[j])
      \* \s+ from j on ends before an upper-case letter
      blanksThenUpper(j) ==
        \E k \in (j + 1)..n : (\A m \in j..(k - 1) : blank(m)) /\ IsUpperCase(searchText[k])
      blanksToEnd(j) == \A m \in j..n : blank(m)
  IN CASE pattern = "period capital" -> is(i, ".") /\ blanksThenUpper(i + 1)
       [] pattern = "period quote" -> is(i, ".") /\ is(i + 1, "\"") /\ blank(i + 2)
       [] pattern = "period parenthesis" -> is(i, ".") /\ is(i + 1, ")") /\ blank(i + 2)
       [] pattern = "question mark" -> is(i, "?") /\ blank(i + 1)
       [] pattern = "exclamation mark" -> is(i, "!") /\ blank(i + 1)
       [] pattern = "period at end" -> is(i, ".") /\ blanksToEnd(i + 1)
       [] pattern = "semicolon" -> is(i, ";") /\ blank(i + 1)
       [] pattern = "colon" -> is(i, ":") /\ blank(i + 1)
       [] pattern = "paragraph break" -> is(i, "\n") /\ is(i + 1, "\n")
       [] pattern = "any period" -> is(i, ".")

sentenceEndings ==
  <<"period capital", "period quote", "period parenthesis", "question mark",
    "exclamation mark", "period at end">>

fallbackPatterns == <<"semicolon", "colon", "paragraph break", "any period">>

\* Math.min(1000, maxLength * 0.7), for a maxLength that is a multiple of 10
minLengthOf(maxLength) == Min(1000, (maxLength * 7) \div 10)

acceptedAnywhere(position, startPos, maxLength, bestPosition) == position > bestPosition

\* position < startPos + maxLength && position > bestPosition
accepted(position, startPos, maxLength, bestPosition) ==
  position < startPos + maxLength /\ position > bestPosition

\* the positions startPos + minLength + match.index + 1 of the matches of a pattern
positionsOf(pattern, searchText, startPos, maxLength) ==
  {startPos + minLengthOf(maxLength) + (i - 1) + 1 :
     i \in {j \in 1..Len(searchText) : matchesAt(pattern, searchText, j)}}

Maximum(S) == CHOOSE x \in S : \A y \in S : y <= x

Minimum(S) == CHOOSE x \in S : \A y \in S : x <= y

RECURSIVE lastEnding(_, _, _, _, _)
\* the loop over sentenceEndings: every accepted match raises bestPosition
lastEnding(patterns, searchText, startPos, maxLength, bestPosition) ==
  IF patterns = << >> THEN bestPosition
  ELSE LET found == {p \in positionsOf(Head(patterns), searchText, startPos, maxLength) :
                       accepted(p, startPos, maxLength, bestPosition)}
       IN lastEnding(Tail(patterns), searchText, startPos, maxLength,
                     IF found = {} THEN bestPosition ELSE Maximum(found))

RECURSIVE firstBreak(_, _, _, _, _)
\* the loop over fallbackPatterns: the first accepted match of each pattern
firstBreak(patterns, searchText, startPos, maxLength, bestPosition) ==
  IF patterns = << >> THEN bestPosition
  ELSE LET found == {p \in positionsOf(Head(patterns), searchText, startPos, maxLength) :
                       accepted(p, startPos, maxLength, bestPosition)}
       IN firstBreak(Tail(patterns), searchText, startPos, maxLength,
                     IF found = {} THEN bestPosition ELSE Minimum(found))

\* text.substring(from, to) with 0 <= from
substring(text, from, to) == SubSeq(text, from + 1, Min(to, Len(text)))

findSentenceBoundary(text, startPos, maxLength) ==
  IF Len(text) <= maxLength THEN Len(text)
  ELSE LET searchText == substring(text, startPos + minLengthOf(maxLength), startPos + maxLength + 200)
           ending == lastEnding(sentenceEndings, searchText, startPos, maxLength, -1)
           bestPosition == IF ending = -1
                             THEN firstBreak(fallbackPatterns, searchText, startPos, maxLength, -1)
                           ELSE ending
       IN IF bestPosition > 0 THEN bestPosition ELSE startPos + maxLength

\* what extractCompleteParagraphs makes of one clean text
truncate(cleanText, maxLength) ==
  IF Len(cleanText) <= maxLength
    THEN [text |-> cleanText, isComplete |-> TRUE]
  ELSE LET boundary == findSentenceBoundary(cleanText, 0, maxLength)
       IN [text |-> substring(cleanText, 0, boundary), isComplete |-> boundary >= Len(cleanText)]

TextHeads == {<<"a", "a", "a", "a", "a", "a", "a">>, <<"a", "a", ".", " ", "A", "a", "a">>}

TextTails == UNION {[1..n -> {"a", "A", " ", ".", ";"}] : n \in 0..MaxTail}

TruncateArgs ==
  {[fn |-> "truncate", text |-> head \o tail, maxLength |-> 10] : head \in TextHeads, tail \in TextTails}

RunTruncate ==
  /\ args.fn = "truncate"
  /\ ret = NoRet
  /\ ret' = [kind |-> "paragraph", paragraph |-> truncate(args.text, args.maxLength)]
  /\ UNCHANGED <<enableCaching, cacheTimeout, elapses, cache, calls,
                 requestQueue, slotTimer, sinceFetch, lastGap, tool, args>>

(***************************************************************************)
(* Paragraph numbers.  A fragment is the sequence of its blank-separated   *)
(* pieces, a tag with its attributes being one piece; a paragraph number   *)
(* is a one-element sequence and null the empty one.                       *)
(***************************************************************************)
MaxPieces == 3

\* the number a piece carries for a strategy, null when the pattern does not match it
numberIn(strategy, piece) ==
  CASE strategy = "data-structure" /\ piece = "<p data-structure id=p_1>" -> <<1>>
    [] strategy = "id" /\ piece = "<p data-structure id=p_1>" -> <<1>>
    [] strategy = "id" /\ piece = "<div id=para_2>" -> <<2>>
    [] strategy = "blockquote" /\ piece = "<blockquote id=blockquote_3>" -> <<3>>
    [] strategy = "numbering" /\ piece = "4." -> <<4>>
    [] strategy = "marker" /\ piece = "[7]" -> <<7>>
    [] strategy = "para" /\ piece = "8" -> <<8>>
    [] OTHER -> << >>

\* /[A-Z]/ at the start of a piece
StartsUpperCase(piece) == piece = "The"

\* the match of a strategy's pattern that starts at piece i, null when there is none
matchAt(strategy, htmlFragment, i) ==
  CASE strategy = "numbering" ->
         \* /(?:^|\s)(\d+)\.\s*(?=[A-Z])/
         IF i < Len(htmlFragment) /\ StartsUpperCase(htmlFragment[i + 1])
           THEN numberIn("numbering", htmlFragment[i]) ELSE << >>
    [] strategy = "marker" ->
         \* /\[(\d+)\]|\¶\s*(\d+)|para(?:graph)?\s+(\d+)/i
         IF numberIn("marker", htmlFragment[i]) # << >> THEN numberIn("marker", htmlFragment[i])
         ELSE IF htmlFragment[i] = "para" /\ i < Len(htmlFragment)
           THEN numberIn("para", htmlFragment[i + 1])
         ELSE << >>
    [] OTHER -> numberIn(strategy, htmlFragment[i])

\* htmlFragment.match(pattern): the leftmost match, null when there is none
firstMatch(strategy, htmlFragment) ==
  LET at == {i \in 1..Len(htmlFragment) : matchAt(strategy, htmlFragment, i) # << >>}
  IN IF at = {} THEN << >> ELSE matchAt(strategy, htmlFragment, Minimum(at))

\* the strategies in the order in which the function tries them
paragraphStrategies == <<"data-structure", "id", "blockquote", "numbering", "marker">>

RECURSIVE firstOf(_, _)
firstOf(strategies, htmlFragment) ==
  IF strategies = << >> THEN << >>
  ELSE IF firstMatch(Head(strategies), htmlFragment) # << >>
    THEN firstMatch(Head(strategies), htmlFragment)
  ELSE firstOf(Tail(strategies), htmlFragment)

extractRealParagraphNumber(htmlFragment) == firstOf(paragraphStrategies, htmlFragment)

\* extractRealParagraphNumber(fragment) || `${i + 1}`, i counted from 0
paragraphNumberOf(fragment, i) ==
  IF extractRealParagraphNumber(fragment) # << >> THEN extractRealParagraphNumber(fragment)
  ELSE <<i + 1>>

Pieces ==
  {"<p data-structure id=p_1>", "<div id=para_2>", "<blockquote id=blockquote_3>",
   "4.", "[7]", "para", "8", "The", "text"}

Fragments == UNION {[1..n -> Pieces] : n \in 1..MaxPieces}

ParagraphArgs ==
  {[fn |-> "paragraphNumber", fragment |-> fragment, index |-> i] :
     fragment \in Fragments, i \in {0, 5}}

RunParagraphNumber ==
  /\ args.fn = "paragraphNumber"
  /\ ret = NoRet
  /\ ret' = [kind |-> "paragraphNumber", paraNum |-> paragraphNumberOf(args.fragment, args.index)]
  /\ UNCHANGED <<enableCaching, cacheTimeout, elapses, cache, calls,
                 requestQueue, slotTimer, sinceFetch, lastGap, tool, args>>

(***************************************************************************)
(* The functions run on their own: the arguments are drawn at the start,   *)
(* one step applies the function.                                          *)
(***************************************************************************)
FnArgs == HandlerArgs \cup ScoreArgs \cup ResponseArgs \cup WeightArgs \cup ValidateArgs
          \cup PreprocessArgs \cup CitationArgs \cup TruncateArgs
          \cup ParagraphArgs \cup JoinArgs

FnInit ==
  /\ enableCaching = TRUE
  /\ cacheTimeout = MinCacheTimeoutMinutes * 60 * 1000
  /\ elapses = 0
  /\ cache = << >>
  /\ calls = << >>
  /\ requestQueue = << >>
  /\ slotTimer = NoTimer
  /\ sinceFetch = NoTimer
  /\ lastGap = NoTimer
  /\ tool = NoTool
  /\ args \in FnArgs
  /\ ret = NoRet

FnNext ==
  \/ RunToolHandler
  \/ RunRelevanceScore
  \/ RunSearchResponse
  \/ RunLegalWeight
  \/ RunValidateSection
  \/ RunPreprocessQuery
  \/ RunFormatCitation
  \/ RunTruncate
  \/ RunParagraphNumber
  \/ RunSearchAnswer

FnSpec == FnInit /\ [][FnNext]_vars

(***************************************************************************)
(* Claims                                                                  *)
(***************************************************************************)
Started(c) == c \in 1..Len(calls)

\* call c is invoked by this step
Invoked(c) == c \in 1..Len(calls') /\ c > Len(calls)

\* the pending fetch of call c settles in this step
Settles(c) == Started(c) /\ calls[c].pc = "fetching" /\ calls'[c].pc # "fetching"

\* call c completes in this step
Completes(c) == Started(c) /\ calls[c].pc # "done" /\ calls'[c].pc = "done"

Fresh(key) == enableCaching /\ key \in DOMAIN cache /\ cache[key].age <= cacheTimeout
Stale(key) == enableCaching /\ key \in DOMAIN cache /\ cache[key].age > cacheTimeout

\* C1: with caching enabled, a call whose key has an entry stored within the
\* cache timeout returns that entry's payload and makes no network call,
\* whatever the payload is.
C1_CachedWithinTimeout ==
  [][\A c \in 1..MaxCalls :
       (Invoked(c) /\ Fresh(cacheKey(calls'[c].req)))
         => /\ calls'[c].pc = "done"
            /\ calls'[c].result = Ok(cache[cacheKey(calls'[c].req)].data)
            /\ calls'[c].fetches = 0
            /\ c \notin {requestQueue'[i] : i \in 1..Len(requestQueue')}]_vars

C3_MinSpacing == lastGap = NoTimer \/ lastGap >= requestDelay

\* C4: a fetch answered 429 at attempt a is followed by a wait of 2^a seconds;
\* after the wait the same request is fetched again while fewer than three
\* fetches were made, and no call makes more than three fetches.
C4_RateLimitBackoff ==
  [][\A c \in 1..MaxCalls :
       /\ (Settles(c) /\ calls'[c].status = 429)
            => /\ calls'[c].pc = "wait429"
               /\ calls'[c].timer = (2 ^ calls[c].attempt) * 1000
               /\ calls'[c].attempt = calls[c].attempt
       /\ (Started(c) /\ calls[c].pc = "wait429" /\ calls'[c].pc # "wait429")
            => /\ calls[c].timer = 0
               /\ calls'[c].req = calls[c].req
               /\ IF calls[c].fetches < 3
                    THEN calls'[c].pc = "fetching" /\ calls'[c].fetches = calls[c].fetches + 1
                    ELSE calls'[c].pc = "done" /\ calls'[c].fetches = 3
       /\ c \in 1..Len(calls') => calls'[c].fetches <= 3]_vars

C4_Witness ==
  \E c \in 1..Len(calls) :
    calls[c].pc = "wait429" /\ calls[c].attempt = 2 /\ calls[c].timer = 4000

\* C5: a fetch answered with a non-2xx status other than 429 ends the call at
\* once with a failure: no wait, no further fetch.
C5_FailImmediately ==
  [][\A c \in 1..MaxCalls :
       (Settles(c) /\ calls'[c].status \in {401, 500})
         => calls'[c].pc = "done" /\ calls'[c].result.kind = "err"]_vars

\* C6: a fetch that throws at attempt a is followed by a wait of 1000*(a+1) ms
\* and another fetch, within the ceiling of three fetches that 429 retries
\* count against too; a throw of the third fetch ends the call with that
\* network failure as its error.
C6_NetworkRetry ==
  [][\A c \in 1..MaxCalls :
       /\ (Settles(c) /\ calls'[c].status = NetworkFailure)
            => IF calls[c].fetches = 3
                 THEN /\ calls'[c].pc = "done"
                      /\ calls'[c].result = Err(NetworkMessage)
                 ELSE /\ calls'[c].pc = "waitErr"
                      /\ calls'[c].timer = 1000 * (calls[c].attempt + 1)
       /\ (Started(c) /\ calls[c].pc = "waitErr" /\ calls'[c].pc # "waitErr")
            => /\ calls[c].timer = 0
               /\ calls'[c].pc = "fetching"
               /\ calls'[c].req = calls[c].req
               /\ calls'[c].fetches = calls[c].fetches + 1
       /\ c \in 1..Len(calls') => calls'[c].fetches <= 3]_vars

C6_Witness ==
  \E c \in 1..Len(calls) :
    /\ calls[c].pc = "done"
    /\ calls[c].status = NetworkFailure
    /\ calls[c].fetches = 3
    /\ ~calls[c].all429
    /\ calls[c].result = Err(NetworkMessage)

\* C7: a call whose every fetch was answered 429 ends as a failure carrying
\* the rate-limit message, never as a result.
C7_RateLimitExhaustion ==
  \A c \in 1..Len(calls) :
    (calls[c].pc = "done" /\ calls[c].fetches >= 1 /\ calls[c].all429)
      => calls[c].result = Err(RateLimitMessage)

IsAuthMessage(m) == includes(m, AuthMessage[1])
IsRateLimitMessage(m) == includes(m, RateLimitMessage[1])
IsNetworkMessage(m) == m = NetworkMessage

\* C8: when the metadata fetch of extract_legal_principles fails, the message
\* of the tool tells the classes apart: 401 gives the authentication message,
\* a network failure the connectivity message, another non-2xx status none of
\* the authentication, rate-limit and connectivity messages.
C8_FailureClasses ==
  (/\ tool.name = "extract_legal_principles"
   /\ tool.stage = "done"
   /\ calls[tool.meta].result.kind = "err")
    => LET m == tool.envelope.message
           status == calls[tool.meta].status IN
       /\ status = 401 => IsAuthMessage(m)
       /\ status = NetworkFailure => IsNetworkMessage(m)
       /\ status = 500 => ~IsAuthMessage(m) /\ ~IsRateLimitMessage(m) /\ ~IsNetworkMessage(m)

\* C9: every logical call is eventually done, after at most three fetches,
\* and the tool invocation is eventually done.
C9_CallsComplete ==
  /\ \A c \in 1..MaxCalls : Started(c) ~> (Started(c) /\ calls[c].pc = "done")
  /\ (tool.name # "none") ~> (tool.stage = "done")
  /\ [](\A c \in 1..Len(calls) : calls[c].fetches <= 3)

C9_Witness ==
  /\ Len(calls) = MaxCalls
  /\ \A c \in 1..Len(calls) : calls[c].pc = "done"
  /\ \E c \in 1..Len(calls) : calls[c].fetches = 3
  /\ \E c \in 1..Len(calls) : calls[c].fetches = 1

SubFailed(c) == calls[c].result.kind = "err" \/ calls[c].result = Ok(Undefined)
SubSucceeded(c) == calls[c].result.kind = "ok" /\ Truthy(calls[c].result.data)

\* C10: a tool invocation in which some but not all parallel sub-requests
\* failed, by an error or by reaching the retry ceiling, does not answer with
\* the top-level error envelope.
C10_PartialFailure ==
  (/\ tool.stage = "done"
   /\ tool.subs # << >>
   /\ tool.name = "extract_legal_principles" => SubSucceeded(tool.meta)
   /\ \E i \in 1..Len(tool.subs) : SubFailed(tool.subs[i])
   /\ \E i \in 1..Len(tool.subs) : SubSucceeded(tool.subs[i]))
    => tool.envelope.kind # "ERROR"

\* C11: a search_legal_precedents invocation whose every parallel search
\* variant failed answers with the top-level error envelope (searchStatus
\* ERROR carrying a classified message), not with the NO_RESULTS diagnostic.
C11_TotalFailureIsError ==
  (/\ tool.name = "search_legal_precedents"
   /\ tool.stage = "done"
   /\ \A i \in 1..Len(tool.subs) : calls[tool.subs[i]].result.kind = "err")
    => /\ tool.envelope.kind = "ERROR"
       /\ tool.envelope.message # << >>

\* the call c returned the body of a 2xx answer of the upstream for the key
ReturnedByUpstream(c, key) ==
  /\ calls[c].pc = "done"
  /\ cacheKey(calls[c].req) = key
  /\ responseOk(calls[c].status)
  /\ calls[c].result.kind = "ok"
  /\ calls[c].result.data \in Payloads

\* C13: under every interleaving of the calls that share the cache, every
\* cache entry holds a response the upstream returned for exactly the entry's
\* key; two calls racing on one key each fetch and the later store overwrites
\* the earlier one.
C13_CacheNeverCorrupted ==
  \A key \in DOMAIN cache :
    \E c \in 1..Len(calls) :
      ReturnedByUpstream(c, key) /\ cache[key].data = calls[c].result.data

EnvelopeKinds == {"ERROR", "TEXT", "NO_RESULTS", "RESULTS", "NO_FRAGMENTS", "PRINCIPLES",
                  "MEMO", "CITATION", "VERIFICATION"}

\* C12: each of the five tool handlers answers with a response envelope for
\* every combination of sub-request outcomes (payload, error, undefined after
\* the retry ceiling); no exception leaves a handler.
C12_HandlersAlwaysAnswer ==
  (args.fn \in ToolNames /\ ret # NoRet) => ret.kind \in EnvelopeKinds

\* a handler answered although a sub-request ended in an error and another
\* one ran into the retry ceiling
C12_Witness ==
  /\ args.fn = "verify_citations"
  /\ ret.kind = "TEXT"
  /\ \E i \in 1..Len(args.outcomes) : args.outcomes[i].kind = "err"
  /\ \E i \in 1..Len(args.outcomes) : args.outcomes[i] = Ok(Undefined)

Scored == args.fn = "calculateRelevanceScore" /\ ret # NoRet
LabelHas(word) == includesPhrase(courtStr(args.doc), word)
OtherMultipliers == Times(recencyMultiplier(args.doc), citationMultiplier(args.doc))
KnownCourtWord ==
  \/ LabelHas(<<"supreme">>) \/ LabelHas(<<"apex">>) \/ LabelHas(<<"high", "court">>)
  \/ LabelHas(<<"hc">>) \/ LabelHas(<<"district">>) \/ LabelHas(<<"sessions">>)
  \/ LabelHas(<<"tribunal">>) \/ LabelHas(<<"appellate">>) \/ LabelHas(<<"commission">>)
  \/ \E hc \in {"delhi", "bombay", "madras", "calcutta", "karnataka",
                "kerala", "punjab", "gujarat", "rajasthan"} : LabelHas(<<hc>>)

\* C19 as stated: the court multiplier is 1.5 for every label containing
\* 'supreme' or 'apex' (any case), 1.0 for every label containing 'district'
\* or 'sessions', and 1.0 for an unrecognized label.
C19_CourtMultiplier ==
  Scored =>
    /\ (LabelHas(<<"supreme">>) \/ LabelHas(<<"apex">>))
         => ret.score = Times(Frac(15, 10), OtherMultipliers)
    /\ (LabelHas(<<"district">>) \/ LabelHas(<<"sessions">>))
         => ret.score = Times(One, OtherMultipliers)
    /\ ~KnownCourtWord => ret.score = Times(One, OtherMultipliers)

\* C19 amended: the court multiplier is 1.5 for every label containing
\* 'supreme' or 'apex' (any case); 1.0 for every label containing 'district'
\* or 'sessions' and none of 'supreme', 'apex', 'high court', 'hc'; and 1.0
\* for a label with no court keyword.
C19_CourtMultiplierByRank ==
  Scored =>
    /\ (LabelHas(<<"supreme">>) \/ LabelHas(<<"apex">>))
         => ret.score = Times(Frac(15, 10), OtherMultipliers)
    /\ ((LabelHas(<<"district">>) \/ LabelHas(<<"sessions">>))
        /\ ~(LabelHas(<<"supreme">>) \/ LabelHas(<<"apex">>)
             \/ LabelHas(<<"high", "court">>) \/ LabelHas(<<"hc">>)))
         => ret.score = Times(One, OtherMultipliers)
    /\ ~KnownCourtWord => ret.score = Times(One, OtherMultipliers)

\* a document of the Supreme Court whose label also names a district scored 1.5
C19_Witness ==
  /\ Scored
  /\ LabelHas(<<"supreme">>) /\ LabelHas(<<"district">>)
  /\ args.doc.publishdate = Missing /\ args.doc.numcitedby = Missing
  /\ ret.score = Frac(3, 2)

\* C20: the citation multiplier of calculateRelevanceScore is 1.4 when
\* numcitedby > 20, 1.2 when 10 < numcitedby <= 20 and 1 otherwise, a missing
\* count included; the two bonuses are never both applied.
C20_CitationMultiplier ==
  Scored =>
    LET n == IF args.doc.numcitedby = Missing THEN 0 ELSE args.doc.numcitedby[1]
        base == Times(courtMultiplier(args.doc), recencyMultiplier(args.doc))
    IN /\ n > 20 => ret.score = Times(base, Frac(14, 10))
       /\ (n > 10 /\ n <= 20) => ret.score = Times(base, Frac(12, 10))
       /\ n <= 10 => ret.score = base

\* an old district-court document cited 21 times scored 1.4
C20_Witness ==
  /\ Scored
  /\ args.doc.numcitedby = <<21>> /\ args.doc.publishdate = <<2020>>
  /\ args.doc.doctype = <<"District", "Court">>
  /\ ret.score = Frac(7, 5)

Responded == args.fn = "searchResponse" /\ ret # NoRet

\* C14: for every query, when the merged result set is empty the answer of
\* search_legal_precedents carries a non-empty reason and at least one
\* alternative query.
C14_EmptyResultDiagnostic ==
  (Responded /\ args.allDocs = << >>)
    => /\ ret.searchStatus = "NO_RESULTS"
       /\ ret.reason # ""
       /\ Len(ret.alternativeQueries) >= 1

\* the document with the tid of a returned case, and its score
DocOf(case) == CHOOSE doc \in {args.allDocs[i] : i \in 1..Len(args.allDocs)} : doc.tid = case.id
ScoreOf(case) ==
  calculateQueryRelevance(preprocessQuery(args.query), DocOf(case), calculateRelevanceScore(DocOf(case)))
MergedAt(case) == CHOOSE i \in 1..Len(args.allDocs) : args.allDocs[i].tid = case.id
ThresholdExcludesAll ==
  \A i \in 1..Len(args.allDocs) :
    ~AtLeast(ScoreOf([id |-> args.allDocs[i].tid]), args.relevanceThreshold)

\* C15: for every courtLevel, threshold and limit, when the merged results
\* hold at least one document the case list of the answer is not empty, and
\* when the threshold excludes every result the answer holds the best-scoring
\* results marked as below the threshold.
C15_NeverEmptyWithCandidates ==
  (Responded /\ args.allDocs # << >>)
    => /\ ret.cases # << >>
       /\ ThresholdExcludesAll
            => /\ ret.searchStatus = "LOW_RELEVANCE"
               /\ \A i \in 1..Len(ret.cases) : ret.cases[i].relevanceNote = BelowThresholdNote

\* C16: the returned cases are in non-increasing score order, cases of equal
\* score keep the order of the merge, every case of the normal branch scores
\* at least the threshold, and at most `limit` cases are returned.
C16_RankedStableBounded ==
  Responded =>
    /\ \A i, j \in 1..Len(ret.cases) :
         i < j => /\ AtLeast(ScoreOf(ret.cases[i]), ScoreOf(ret.cases[j]))
                  /\ ret.cases[i].relevanceScore >= ret.cases[j].relevanceScore
                  /\ ScoreOf(ret.cases[i]) = ScoreOf(ret.cases[j])
                       => MergedAt(ret.cases[i]) < MergedAt(ret.cases[j])
    /\ ret.searchStatus = "SUCCESS"
         => \A i \in 1..Len(ret.cases) : AtLeast(ScoreOf(ret.cases[i]), args.relevanceThreshold)
    /\ Len(ret.cases) <= args.limit

\* two documents of equal score were returned in merge order, ahead of a
\* lower-scoring document that was merged before them
C16_Witness ==
  /\ Responded
  /\ ret.searchStatus = "SUCCESS"
  /\ Len(ret.cases) = 3
  /\ ScoreOf(ret.cases[1]) = ScoreOf(ret.cases[2])
  /\ Above(ScoreOf(ret.cases[2]), ScoreOf(ret.cases[3]))
  /\ MergedAt(ret.cases[3]) < MergedAt(ret.cases[1])
  /\ MergedAt(ret.cases[1]) < MergedAt(ret.cases[2])

Weighed == args.fn = "legalWeight" /\ ret # NoRet

\* the categories with a pattern that matches the paragraph
Matching == {legalMarkers[k].category : k \in {i \in 1..Len(legalMarkers) :
                                                 matches(legalMarkers[i].patterns, args.text) # {}}}

\* the order of priority and the label of each category
Priority ==
  <<"ratioDecidendi", "overruling", "statutoryInterpretation", "evidenceEvaluation", "following",
    "distinguishing", "proceduralDirections", "concessionsAdmissions", "judicialDisagreement",
    "obiterDicta">>
LabelOf(category) ==
  CASE category = "ratioDecidendi" -> "Ratio Decidendi"
    [] category = "overruling" -> "Overruling Precedent"
    [] category = "statutoryInterpretation" -> "Statutory Interpretation"
    [] category = "evidenceEvaluation" -> "Evidence Analysis"
    [] category = "following" -> "Following Precedent"
    [] category = "distinguishing" -> "Distinguishing"
    [] category = "proceduralDirections" -> "Procedural Direction"
    [] category = "concessionsAdmissions" -> "Concession/Admission"
    [] category = "judicialDisagreement" -> "Judicial Disagreement"
    [] category = "obiterDicta" -> "Obiter Dicta"

\* C17: the legal-weight label of a fragment is the label of the first
\* category, in the order ratio decidendi > overruling > statutory
\* interpretation > evidence analysis > following > distinguishing >
\* procedural direction > concession/admission > judicial disagreement >
\* obiter dicta, among the categories that match it, and 'Supporting
\* Observation' when none matches.
C17_HighestPriorityLabel ==
  Weighed =>
    IF Matching = {} THEN ret.legalWeight = "Supporting Observation"
    ELSE \E k \in 1..Len(Priority) :
           /\ Priority[k] \in Matching
           /\ \A j \in 1..(k - 1) : Priority[j] \notin Matching
           /\ ret.legalWeight = LabelOf(Priority[k])

\* C18: a fragment that matches a ratio-decidendi marker such as 'we hold
\* that' is labelled 'Ratio Decidendi' whatever else it matches.
C18_RatioAlwaysWins ==
  (Weighed /\ "ratioDecidendi" \in Matching) => ret.legalWeight = "Ratio Decidendi"

\* a paragraph with 'We Hold That' that also matches overruling, statutory
\* interpretation and obiter dicta was labelled Ratio Decidendi
C18_Witness ==
  /\ Weighed
  /\ InSeq("We Hold That", args.text) /\ ~InSeq("we hold that", args.text)
  /\ {"overruling", "statutoryInterpretation", "obiterDicta"} \subseteq Matching
  /\ ret.legalWeight = "Ratio Decidendi"

Validated == args.fn = "validateSection" /\ ret # NoRet

Preprocessed == args.fn = "preprocessQuery" /\ ret # NoRet

\* the digits a section string starts with
leadingDigits(sectionNum) ==
  pick(sectionNum, [i \in 1..Len(sectionNum) |-> IsDigit(sectionNum[i])])

\* C21: validateSection flags a section number valid exactly when its number
\* lies in the range of the code (IPC 1-511, BNS 1-358, CrPC 1-484); the
\* suggestions of an out-of-range number start with its entries of the
\* known-typo table; for the query 'Section 823 IPC bail' the section 823 is
\* flagged invalid and 323 is among its suggestions.
C21_ValidExactlyInRange ==
  /\ Validated =>
       LET num == parseDigits(leadingDigits(args.sectionNum), 0)
           range == sectionRange(args.codeType)
           typos == commonMistakes(num)
       IN /\ ret.validation.isValid <=> (num >= range.min /\ num <= range.max)
          /\ ~(num >= range.min /\ num <= range.max) =>
               /\ Len(ret.validation.nearestValid) >= Len(typos)
               /\ SubSeq(ret.validation.nearestValid, 1, Len(typos)) = typos
  /\ Preprocessed /\ args.query = <<"Section", "823", "IPC", "bail">> =>
       /\ ret.processed.validatedSections # << >>
       /\ \A i \in 1..Len(ret.processed.validatedSections) :
            /\ ~ret.processed.validatedSections[i].isValid
            /\ InSeq(toString(323), ret.processed.validatedSections[i].suggestions)

\* C22: each section reference of the query appears at most once in
\* extractedSections and in validatedSections, also when several patterns
\* match the same reference (the query names each section number once).
C22_SectionsDeduplicated ==
  Preprocessed /\ (\A i, j \in 1..Len(args.query) :
                     IsSectionNumber(args.query[i]) /\ args.query[i] = args.query[j] => i = j) =>
    /\ \A i, j \in 1..Len(ret.processed.extractedSections) :
         ret.processed.extractedSections[i] = ret.processed.extractedSections[j] => i = j
    /\ \A i, j \in 1..Len(ret.processed.validatedSections) :
         ret.processed.validatedSections[i].original = ret.processed.validatedSections[j].original
           => i = j
Formatted == args.fn = "formatCitation" /\ ret # NoRet

\* parties, court, a year 19xx or 20xx and a case number made of digits
WellFormed(elements) ==
  /\ elements.parties # << >>
  /\ elements.court # << >>
  /\ Len(elements.year) = 1 /\ IsYear(elements.year[1])
  /\ Len(elements.caseNumber) = 1 /\ IsNumber(elements.caseNumber[1])

\* the entry of CITATION_PATTERNS that belongs to a style
patternOf(style) == IF style = "SCC OnLine" THEN "SCC_OnLine" ELSE style

\* C23: for each of the four styles and every well-formed set of citation
\* elements, validateCitation reports the full citation string produced by
\* formatCitation valid for that style's pattern.
C23_FormatThenValidate ==
  Formatted /\ args.style \in {"AIR", "SCC", "Neutral", "SCC OnLine"} /\ WellFormed(args.elements) =>
    /\ ret.validation.isValid
    /\ patternTest(patternOf(args.style), ret.full)
Truncated == args.fn = "truncate" /\ ret # NoRet

IsLetter(c) == c \in {"a", "A"}

\* the characters a matched sentence ending or fallback break starts with
BreakCharacters == {".", "?", "!", ";", ":", "\n"}

\* the positions at which an accepted match can start: from the minimum
\* length up to two characters before the maximum length
Window == {p \in 1..Len(args.text) : p > minLengthOf(args.maxLength) /\ p < args.maxLength}

ReturnedWhole ==
  Len(args.text) <= args.maxLength => ret.paragraph.text = args.text /\ ret.paragraph.isComplete

\* C24 (as stated): a text no longer than the maximum length is returned whole
\* and marked complete; a longer text is cut to at most the maximum length,
\* the cut falls at a punctuation boundary and not mid-word, and the result is
\* marked incomplete.
C24_CutNotMidWord ==
  Truncated =>
    /\ ReturnedWhole
    /\ Len(args.text) > args.maxLength =>
         LET cut == Len(ret.paragraph.text)
         IN /\ cut <= args.maxLength
            /\ ~ret.paragraph.isComplete
            /\ ret.paragraph.text = SubSeq(args.text, 1, cut)
            /\ ~(cut >= 1 /\ IsLetter(args.text[cut]) /\ IsLetter(args.text[cut + 1]))

\* C24 (amended): a longer text is cut to at most the maximum length and
\* marked incomplete; the cut falls right after a punctuation mark when a
\* period lies in the window between the minimum and the maximum length, and
\* at the maximum length when the window holds no punctuation mark.
C24_CutAtBoundaryOrMaximum ==
  Truncated =>
    /\ ReturnedWhole
    /\ Len(args.text) > args.maxLength =>
         LET cut == Len(ret.paragraph.text)
         IN /\ cut <= args.maxLength
            /\ ~ret.paragraph.isComplete
            /\ ret.paragraph.text = SubSeq(args.text, 1, cut)
            /\ (\E p \in Window : args.text[p] = ".") =>
                 cut \in Window /\ args.text[cut] \in BreakCharacters
            /\ (\A p \in Window : args.text[p] \notin BreakCharacters) => cut = args.maxLength

C24_Witness ==
  /\ Truncated
  /\ Len(args.text) > args.maxLength
  /\ Len(ret.paragraph.text) < args.maxLength
  /\ ret.paragraph.text[Len(ret.paragraph.text)] = "."
  /\ ~ret.paragraph.isComplete
Numbered == args.fn = "paragraphNumber" /\ ret # NoRet

\* the strategies in the order (a), (b), (c): the text markers before the numbering
paragraphStrategiesMarkersFirst == <<"data-structure", "id", "blockquote", "marker", "numbering">>

\* C25: the paragraph number is that of the first matching strategy in the
\* order (a) id attributes, (b) 'para N' / '[N]' markers, (c) a leading
\* 'N.', (d) the position of the fragment; a fragment without id attribute
\* that has a marker N and a leading 'M.' gets N.
C25_StrategyOrder ==
  Numbered =>
    ret.paraNum = IF firstOf(paragraphStrategiesMarkersFirst, args.fragment) # << >>
                    THEN firstOf(paragraphStrategiesMarkersFirst, args.fragment)
                  ELSE <<args.index + 1>>
\* the confidence, in hundredths, that the switch gives a category to start with
BaseConfidence(category) ==
  CASE category = "ratioDecidendi" -> 90
    [] category = "overruling" -> 85
    [] category = "statutoryInterpretation" -> 80
    [] category = "evidenceEvaluation" -> 75
    [] category = "following" -> 80
    [] category = "distinguishing" -> 70
    [] category = "proceduralDirections" -> 65
    [] category = "concessionsAdmissions" -> 70
    [] category = "judicialDisagreement" -> 60
    [] category = "obiterDicta" -> 55

\* the number of patterns of a category that match the paragraph
MatchCount(category) ==
  Cardinality(UNION {matches(legalMarkers[k].patterns, args.text) :
                       k \in {i \in 1..Len(legalMarkers) : legalMarkers[i].category = category}})

\* C26: the confidence of a classified fragment is at least the base value
\* of its winning category, is above it when more than one pattern of that
\* category matches, for every category, and never exceeds 1.0; a fragment
\* matching no category has confidence 0.5.
C26_ConfidenceGrowsWithMatches ==
  Weighed =>
    /\ ret.confidence <= 100
    /\ Matching = {} => ret.confidence = 50
    /\ \A category \in Matching :
         ret.legalWeight = LabelOf(category) =>
           /\ ret.confidence >= BaseConfidence(category)
           /\ MatchCount(category) >= 2 => ret.confidence > BaseConfidence(category)
Answered == args.fn = "searchAnswer" /\ ret # NoRet

\* C27: the cases of the answer of search_legal_precedents and their order
\* are the same for every order in which the variant searches complete,
\* given the same response per variant.
C27_SameForEveryOrder ==
  Answered =>
    \A order \in Orders(Len(args.outcomes)) :
      searchAnswer(<<"murder">>, args.outcomes, order).response = ret.response

\* two variants answered with different documents that tie in relevance,
\* the second settling first: the cases come in the order of the variants
C27_Witness ==
  /\ Answered
  /\ Len(args.outcomes) = 2 /\ args.order = <<2, 1>>
  /\ args.outcomes[1] = Ok(JObject(<<2>>)) /\ args.outcomes[2] = Ok(JObject(<<1>>))
  /\ ret.response.searchStatus = "SUCCESS"
  /\ Len(ret.response.cases) = 2
  /\ ret.response.cases[1].id = 2 /\ ret.response.cases[2].id = 1
SearchDone == tool.name = "search_legal_precedents" /\ tool.stage = "done"

\* the variants that ended with a parsed 2xx body, and the documents of one
Succeeded == {i \in 1..Len(tool.subs) : calls[tool.subs[i]].result.kind = "ok"
                                          /\ calls[tool.subs[i]].result.data.t # "undefined"}
DocsOfVariant(i) == calls[tool.subs[i]].result.data.docs

\* the first place (variant, index) at which a document was returned
FirstReturned(doc) ==
  CHOOSE place \in {<<i, k>> : i \in Succeeded, k \in 1..MaxDocs} :
    /\ place[2] <= Len(DocsOfVariant(place[1])) /\ DocsOfVariant(place[1])[place[2]] = doc
    /\ \A i \in Succeeded : \A k \in 1..Len(DocsOfVariant(i)) :
         DocsOfVariant(i)[k] = doc => place[1] < i \/ (place[1] = i /\ place[2] <= k)

\* C30: the merge of the variant searches contains each tid at most once, in
\* the order of the first occurrences in variant order, and contains every
\* document returned by a variant that succeeded and nothing else.
C30_MergeFirstOccurrences ==
  SearchDone =>
    LET merged == tool.envelope.docs
    IN /\ \A a, b \in 1..Len(merged) : merged[a] = merged[b] => a = b
       /\ \A i \in Succeeded : \A k \in 1..Len(DocsOfVariant(i)) : InSeq(DocsOfVariant(i)[k], merged)
       /\ \A a \in 1..Len(merged) : \E i \in Succeeded : InSeq(merged[a], DocsOfVariant(i))
       /\ \A a, b \in 1..Len(merged) :
            a < b => \/ FirstReturned(merged[a])[1] < FirstReturned(merged[b])[1]
                     \/ /\ FirstReturned(merged[a])[1] = FirstReturned(merged[b])[1]
                        /\ FirstReturned(merged[a])[2] < FirstReturned(merged[b])[2]

\* the entry of `key` is set by the step: it is new, or its payload or its
\* insertion timestamp differs from the one it had
Written(key) ==
  \/ key \notin DOMAIN cache
  \/ cache'[key].data # cache[key].data
  \/ cache'[key].age < cache[key].age

\* the step ends call c with a 2xx response and its parsed JSON body
CompletesWithBody(c) ==
  /\ Completes(c)
  /\ responseOk(calls'[c].status)
  /\ calls'[c].result.kind = "ok"
  /\ calls'[c].result.data \in Payloads

\* C28: a cache entry is written only by a call that ends with a 2xx response
\* and a parsed JSON body, under that call's key and with that body; a call
\* that ends without one (error thrown, retry ceiling reached) leaves every
\* entry as it was and adds none.
C28_WrittenOnlyOnSuccess ==
  [][/\ \A key \in DOMAIN cache' :
          Written(key) => \E c \in 1..MaxCalls :
                            /\ CompletesWithBody(c)
                            /\ cacheKey(calls[c].req) = key
                            /\ cache'[key].data = calls'[c].result.data
     /\ \A c \in 1..MaxCalls :
          (Completes(c) /\ ~CompletesWithBody(c)) => cache' = cache]_vars

\* the requests of the four operations over two document ids and two inputs
DocIds == {"d1", "d2"}
AllRequests ==
  {SearchReq(q) : q \in FormInputs} \cup {DocReq(d) : d \in DocIds}
    \cup {FragReq(d, q) : d \in DocIds, q \in FormInputs} \cup {MetaReq(d) : d \in DocIds}

\* call c was answered from the cache without a fetch
ServedFromCache(c) ==
  /\ calls[c].pc = "done"
  /\ calls[c].lookup = "found"
  /\ calls[c].fetches = 0

\* call b ended with a 2xx response whose body is `data`
Fetched(b, data) ==
  /\ calls[b].pc = "done"
  /\ calls[b].fetches > 0
  /\ responseOk(calls[b].status)
  /\ calls[b].result = Ok(data)

\* no two requests of AllRequests share a cache key
KeysDiffer == \A r1, r2 \in AllRequests : cacheKey(r1) = cacheKey(r2) => r1 = r2

\* C29: requests that differ in endpoint, document id or a parameter value
\* have different cache keys, and the payload a call is served from the cache
\* is one an earlier call fetched for the same endpoint and parameters.
C29_ServedForSameRequest ==
  /\ KeysDiffer
  /\ \A c \in 1..Len(calls) :
       ServedFromCache(c) =>
         \E b \in 1..(c - 1) :
           /\ endpoint(calls[b].req) = endpoint(calls[c].req)
           /\ params(calls[b].req) = params(calls[c].req)
           /\ Fetched(b, calls[c].result.data)

\* a call is served from the cache the payload an earlier call fetched for
\* the same request
C29_Witness ==
  \E c \in 1..Len(calls) :
    /\ ServedFromCache(c)
    /\ Truthy(calls[c].result.data)
    /\ \E b \in 1..(c - 1) : calls[b].req = calls[c].req /\ Fetched(b, calls[c].result.data)
====
